---- MODULE Spec2Model ----
(***************************************************************************)
(* Model of the device channel stack of python-roborock:                   *)
(*   - LocalChannel (roborock/devices/local_channel.py): TCP channel with  *)
(*     HELLO negotiation and request/response correlation;                 *)
(*   - Q7 send_decoded_command (roborock/devices/b01_channel.py);          *)
(*   - RoborockLocalClientV1 (version_1_apis/roborock_local_client_v1.py); *)
(*   - V1Channel (roborock/devices/v1_channel.py), the composite channel.  *)
(* One object is modelled per behaviour; the variable "component" says     *)
(* which one, and every action is guarded by it.                           *)
(***************************************************************************)
EXTENDS Naturals, Integers, Sequences, FiniteSets, TLC

(***************************************************************************)
(* Bounds of the model.                                                    *)
(***************************************************************************)
\* number of TCP connections a LocalChannel with two callers opens
MaxConns == 1
\* number of TCP connections a LocalChannel with one caller opens
MaxReconns == 2
\* hours the model lets pass since the last refresh of the network info
MaxAge == 14
\* failed connect attempts of one connect loop of a device that only retries
MaxFailures == 14
\* failed connect attempts of one connect loop of a device with callers
MaxRetries == 2
\* calls of start_connect on one device
MaxStarts == 2
\* subscriptions of one device's message callback a channel holds at a time
MaxSubs == 2
\* entries of a decoded DP map
MaxDps == 2
\* entries of the 101 envelope of a decoded DP map
MaxInner == 2
\* messages fed to one B01 Q10 router
MaxFeeds == 2
\* calls of the remove handles of one B01 Q10 router
MaxRemoves == 2
\* messages a LocalChannel decodes for its subscribers
MaxFrames == 3
\* calls of the B01 Q10 send helpers
MaxSends == 2
\* inbound messages during one send_decoded_command
MaxInbound == 3
\* maps a device reports to the MapsTrait
MaxMaps == 3
\* messages one RoborockDevice._on_message handles
MaxOmMsgs == 2
\* data points in the dps map of one such message
MaxOmDps == 2
\* transports the overlapping connect() calls of one LocalChannel open
MaxCcConns == 3
\* connections one RoborockLocalClientV1 opens
MaxKaConnects == 2
\* PING requests the keepalive of one RoborockLocalClientV1 sends
MaxPings == 3

(***************************************************************************)
(* Values.                                                                 *)
(***************************************************************************)
None == 0
V1 == "1.0"
L01 == "L01"
NoVersion == "none"
Versions == {V1, L01}

HELLO_REQUEST == "HELLO_REQUEST"
HELLO_RESPONSE == "HELLO_RESPONSE"
RPC_REQUEST == "RPC_REQUEST"
RPC_RESPONSE == "RPC_RESPONSE"

\* the request ids callers pass to send_message; 1 is also the seq of HELLO
RequestIds == {1, 2}
\* values of the random field of a HELLO response
Randoms == {7, 9}
\* the value get_next_int(10000, 32767) returned at construction
ConnectNonces == {10000}
LocalKey == "local_key"

\* the request slots: the handshake's own request and two callers
HelloSlot == "hello"
Callers == {"a", "b"}
Slots == {HelloSlot} \cup Callers

Transports == 1..(IF MaxConns > MaxReconns THEN MaxConns ELSE MaxReconns)

\* A LocalChannel is explored in three scenarios: "local" has two concurrent
\* callers of send_message, "reconnect" has one caller and more connections,
\* "cancel" has one caller whose task may be cancelled.
LocalComponents == {"local", "reconnect", "cancel"}

NoMsg == [protocol |-> "none", seq |-> 0, version |-> NoVersion, random |-> 0, nonce |-> 0]

\* The frames the device can send.  nonce is the ack_nonce the sender derived
\* the CBC key from; it is 0 for frames that carry no L01 payload crypto.
HelloMsgs == [protocol : {HELLO_RESPONSE}, seq : RequestIds, version : Versions,
              random : Randoms, nonce : {0}]
RpcMsgs == [protocol : {RPC_RESPONSE}, seq : RequestIds, version : {V1},
            random : {7}, nonce : {0}]
           \cup
           [protocol : {RPC_RESPONSE}, seq : RequestIds, version : {L01},
            random : {7}, nonce : Randoms]
DeviceMsgs == HelloMsgs \cup RpcMsgs

VARIABLES
    component,              \* which object this behaviour is about
    \* ---- LocalChannel ----
    transport,              \* self._transport: 0 (None) or a transport id
    is_connected,           \* self._is_connected
    local_protocol_version, \* self._local_protocol_version
    connect_nonce,          \* self._connect_nonce
    ack_nonce,              \* self._ack_nonce (0 is None)
    encoder,                \* self._encoder: the params it was created with
    decoder,                \* self._decoder: [id, params]
    data_received,          \* self._data_received: the decoder it wraps
    subscribers,            \* self._subscribers: callbacks in insertion order
    tstate,                 \* per transport: unopened / open / closing / lost
    messages_cb,            \* per transport: messages_cb of its _LocalProtocol
    req,                    \* per slot: the send_message call in progress
    outcome,                \* per slot: terminal outcomes of the current call
    lastTx,                 \* the last frame handed to transport.write
    ctask,                  \* the task running connect()
    cresult,                \* how the last connect() call ended
    lastRx,                 \* the last data_received after a handshake
    negotiated,             \* transports on which _hello has succeeded
    \* ---- Q7 send_decoded_command over an MqttChannel ----
    q7req,                  \* per call: msg_id, the finished event, the result dict
    q7subs,                 \* the subscribers of the MqttChannel
    q7out,                  \* per call: its terminal outcomes
    \* ---- RoborockLocalClientV1 ----
    clTransport,            \* self.transport: 0 (None) or 1 (a transport)
    clVersion,              \* self._version
    clCall,                 \* per call of _send_command: where it is
    clOut,                  \* per call: its terminal outcomes
    clEncoded,              \* the methods whose message went through self._encoder
    clWritten,              \* the methods whose frame went to transport.write
    \* ---- V1Channel ----
    v1,                     \* mqtt/local connection state and the network info cache
    v1cmd,                  \* the last send_decoded_command
    v1conn,                 \* the last _local_connect
    v1bg,                   \* the background reconnect loop of the V1Channel
    \* ---- RoborockDevice ----
    device,                 \* the fields of a RoborockDevice and its callers
    \* ---- B01Q10MessageRouter ----
    q10,                    \* the router: queue, consumer task, callbacks
    \* ---- B01 Q10 send helpers over an MqttChannel ----
    q10s,                   \* the call in progress, the channel and its health manager
    \* ---- LocalChannel.subscribe ----
    lsub,                   \* the callbacks subscribed to a LocalChannel and what they got
    \* ---- RoborockLocalClientV1 keepalive ----
    ka,                     \* the transport, the keep_alive_func tasks and their timers
    \* ---- HomeTrait ----
    home,                   \* one call of discover_home: cache, device maps, commands sent
    \* ---- RoborockDevice._on_message ----
    om,                     \* the status trait, its update notifications and the last message handled
    \* ---- overlapping LocalChannel.connect calls ----
    cc,                     \* one LocalChannel and the connect() calls in progress on it
    flat                    \* one call of _flatten_q10_dps: input and output

lcVars == <<transport, is_connected, local_protocol_version, connect_nonce, ack_nonce,
            encoder, decoder, data_received, subscribers, tstate, messages_cb, req,
            outcome, lastTx, ctask, cresult, lastRx, negotiated>>

q7Vars == <<q7req, q7subs, q7out>>

clVars == <<clTransport, clVersion, clCall, clOut, clEncoded, clWritten>>

v1Vars == <<v1, v1cmd, v1conn, v1bg>>

dvVars == <<device>>

q10Vars == <<q10, flat>>

sendVars == <<q10s>>

subVars == <<lsub>>

kaVars == <<ka>>

ccVars == <<cc>>

omVars == <<om>>

homeVars == <<home>>

vars == <<component, lcVars, q7Vars, clVars, v1Vars, dvVars, q10Vars, sendVars, subVars, kaVars, homeVars, omVars, ccVars>>

\* what the actions of a LocalChannel leave alone
notLocal == <<component, q7Vars, clVars, v1Vars, dvVars, q10Vars, sendVars, subVars, kaVars, homeVars, omVars, ccVars>>

\* what the actions of the Q7 send_decoded_command leave alone
notQ7 == <<component, lcVars, clVars, v1Vars, dvVars, q10Vars, sendVars, subVars, kaVars, homeVars, omVars, ccVars>>

\* what the actions of a RoborockLocalClientV1 leave alone
notClient == <<component, lcVars, q7Vars, v1Vars, dvVars, q10Vars, sendVars, subVars, kaVars, homeVars, omVars, ccVars>>

\* what the actions of a V1Channel leave alone
notV1 == <<component, lcVars, q7Vars, clVars, dvVars, q10Vars, sendVars, subVars, kaVars, homeVars, omVars, ccVars>>

\* what the actions of a RoborockDevice leave alone
notDevice == <<component, lcVars, q7Vars, clVars, v1Vars, q10Vars, sendVars, subVars, kaVars, homeVars, omVars, ccVars>>

\* what the actions of the B01 Q10 router leave alone
notQ10 == <<component, lcVars, q7Vars, clVars, v1Vars, dvVars, sendVars, subVars, kaVars, homeVars, omVars, ccVars>>

\* what the actions of the B01 Q10 send helpers leave alone
notSend == <<component, lcVars, q7Vars, clVars, v1Vars, dvVars, q10Vars, subVars, kaVars, homeVars, omVars, ccVars>>

(***************************************************************************)
(* Helpers.                                                                *)
(***************************************************************************)
Range(s) == {s[i] : i \in DOMAIN s}

Remove(s, x) == SelectSeq(s, LAMBDA y : y # x)

(***************************************************************************)
(* LocalChannel                                                            *)
(***************************************************************************)
LocalChannelParams(k, cn, an) == [local_key |-> k, connect_nonce |-> cn, ack_nonce |-> an]

NoDecoder == [id |-> 0, params |-> LocalChannelParams("none", 0, 0)]

IdleReq == [pc |-> "idle", request_id |-> 0, response_protocol |-> "none",
            future |-> "none", result |-> NoMsg, sets |-> 0]

\* a send_message call that has ended; its terminal outcome is in outcome[s]
DoneReq == [IdleReq EXCEPT !.pc = "done"]

IdleTask == [pc |-> "idle", cb |-> NoDecoder, t |-> 0, preferred |-> NoVersion,
             attempts |-> <<>>, tried |-> <<>>]

NoTx == [protocol |-> "none", negotiated |-> FALSE]

NoRx == [used |-> NoDecoder, current |-> NoDecoder, negotiated |-> FALSE]

\* create_local_decoder succeeds on a frame iff the frame carries no L01
\* payload crypto or the decoder was built with the ack_nonce of the sender.
Decodes(m, dec) ==
    \/ m.version = V1
    \/ m.protocol = HELLO_RESPONSE
    \/ m.nonce = dec.params.ack_nonce

\* asyncio.Future.set_result: only a pending future takes a result, a done or
\* cancelled one raises InvalidStateError, which the CallbackList logs.
set_result(r, m) ==
    IF r.future = "pending"
    THEN [r EXCEPT !.future = "done", !.result = m, !.sets = r.sets + 1]
    ELSE r

\* find_response without the comparison of the sequence number
find_response_any_seq(r, m) ==
    IF m.protocol = r.response_protocol
    THEN set_result(r, m)
    ELSE r

\* LocalChannel.send_message.find_response
find_response(r, m) ==
    IF m.protocol = r.response_protocol /\ m.seq = r.request_id
    THEN set_result(r, m)
    ELSE r

\* LocalChannel.__init__ / _update_encoder_decoder(None)
InitChannelVars ==
    /\ transport = None
    /\ is_connected = FALSE
    /\ local_protocol_version = NoVersion
    /\ connect_nonce \in ConnectNonces
    /\ ack_nonce = None
    /\ encoder = LocalChannelParams(LocalKey, connect_nonce, None)
    /\ decoder = [id |-> 1, params |-> LocalChannelParams(LocalKey, connect_nonce, None)]
    /\ data_received = decoder
    /\ subscribers = <<>>
    /\ tstate = [t \in Transports |-> "unopened"]
    /\ messages_cb = [t \in Transports |-> NoDecoder]
    /\ req = [s \in Slots |-> IdleReq]
    /\ outcome = [s \in Slots |-> <<>>]
    /\ lastTx = NoTx
    /\ ctask = IdleTask
    /\ cresult = "none"
    /\ lastRx = NoRx
    /\ negotiated = {}


ConnLimit == IF component = "reconnect" THEN MaxReconns ELSE MaxConns

ActiveCallers == IF component = "local" THEN Callers ELSE {"a"}

\* a publish that does not check the connection
CanPublishUnchecked == TRUE

\* LocalChannel.publish: the connection check of lines 189-190
CanPublish == transport # None /\ is_connected

\* attempt_versions left in its initial order
AttemptVersionsUnsorted(preferred) == <<V1, L01>>

\* LocalChannel._hello: attempt_versions, the preferred version sorted first
AttemptVersions(preferred) ==
    IF preferred = L01 THEN <<L01, V1>> ELSE <<V1, L01>>

\* a send_message call that has subscribed, published and awaits its future
NewReq(id, proto) ==
    [pc |-> "waiting", request_id |-> id, response_protocol |-> proto,
     future |-> "pending", result |-> NoMsg, sets |-> 0]

\* what transport.write receives, and whether the handshake was over by then
Frame(t, proto) ==
    [protocol |-> proto, negotiated |-> t \in negotiated]

NextTransport == Cardinality({t \in Transports : tstate[t] # "unopened"}) + 1

\* LocalChannel.close
close ==
    /\ tstate' = IF transport # None THEN [tstate EXCEPT ![transport] = "closing"] ELSE tstate
    /\ transport' = None
    /\ is_connected' = FALSE

\* LocalChannel._update_encoder_decoder(params)
update_encoder_decoder(params) ==
    /\ encoder' = params
    /\ decoder' = [id |-> decoder.id + 1, params |-> params]
    /\ data_received' = decoder'

\* LocalChannel.connect up to the await of create_connection
Connect ==
    /\ component \in LocalComponents
    /\ ctask.pc = "idle"
    /\ IF is_connected
       THEN /\ cresult' = "already"
            /\ UNCHANGED ctask
       ELSE /\ NextTransport <= ConnLimit
            /\ ctask' = [IdleTask EXCEPT !.pc = "opening", !.cb = data_received]
            /\ cresult' = "none"
    /\ UNCHANGED <<transport, is_connected, local_protocol_version, connect_nonce, ack_nonce,
                   encoder, decoder, data_received, subscribers, tstate, messages_cb, req,
                   outcome, lastTx, lastRx, negotiated, notLocal>>

\* create_connection raises OSError
ConnectRefused ==
    /\ component \in LocalComponents
    /\ ctask.pc = "opening"
    /\ ctask' = IdleTask
    /\ cresult' = "conn_failed"
    /\ UNCHANGED <<transport, is_connected, local_protocol_version, connect_nonce, ack_nonce,
                   encoder, decoder, data_received, subscribers, tstate, messages_cb, req,
                   outcome, lastTx, lastRx, negotiated, notLocal>>

\* create_connection returns; connect goes on into _hello and the first
\* _do_hello, up to the await of the HELLO response
ConnectOpened ==
    /\ component \in LocalComponents
    /\ ctask.pc = "opening"
    /\ LET t == NextTransport
           order == AttemptVersions(local_protocol_version)
           v == Head(order)
       IN /\ transport' = t
          /\ is_connected' = TRUE
          /\ tstate' = [tstate EXCEPT ![t] = "open"]
          /\ messages_cb' = [messages_cb EXCEPT ![t] = ctask.cb]
          /\ subscribers' = Append(subscribers, HelloSlot)
          /\ req' = [req EXCEPT ![HelloSlot] = NewReq(1, HELLO_RESPONSE)]
          /\ outcome' = [outcome EXCEPT ![HelloSlot] = <<>>]
          /\ lastTx' = Frame(t, HELLO_REQUEST)
          /\ ctask' = [ctask EXCEPT !.pc = "hello", !.t = t,
                                    !.preferred = local_protocol_version,
                                    !.attempts = Tail(order),
                                    !.tried = <<[version |-> v, result |-> "pending"]>>]
    /\ UNCHANGED <<local_protocol_version, connect_nonce, ack_nonce, encoder, decoder,
                   data_received, cresult, lastRx, negotiated, notLocal>>

\* the HELLO response arrived: _do_hello returns params, _hello adopts them
HelloReturn ==
    /\ component \in LocalComponents
    /\ ctask.pc = "hello"
    /\ req[HelloSlot].pc = "waiting"
    /\ req[HelloSlot].future = "done"
    /\ LET response == req[HelloSlot].result
           n == Len(ctask.tried)
           params == LocalChannelParams(LocalKey, connect_nonce, response.random)
       IN /\ ack_nonce' = params.ack_nonce
          /\ local_protocol_version' = ctask.tried[n].version
          /\ update_encoder_decoder(params)
          /\ subscribers' = Remove(subscribers, HelloSlot)
          /\ req' = [req EXCEPT ![HelloSlot].pc = "done"]
          /\ outcome' = [outcome EXCEPT ![HelloSlot] = Append(@, "returned")]
          /\ ctask' = [ctask EXCEPT !.pc = "idle", !.tried[n].result = "ok"]
          /\ negotiated' = negotiated \cup {ctask.t}
          /\ cresult' = "ok"
    /\ UNCHANGED <<transport, is_connected, connect_nonce, tstate, messages_cb, lastTx,
                   lastRx, notLocal>>

\* the HELLO attempt timed out: _do_hello returns None, _hello goes on to the
\* next version; when none is left, or every remaining publish raises
\* "Not connected", _hello raises and connect closes the channel
HelloTimeout ==
    /\ component \in LocalComponents
    /\ ctask.pc = "hello"
    /\ req[HelloSlot].pc = "waiting"
    /\ LET n == Len(ctask.tried)
           failed == [ctask.tried EXCEPT ![n].result = "fail"]
       IN IF ctask.attempts # <<>> /\ CanPublish
          THEN /\ subscribers' = Append(Remove(subscribers, HelloSlot), HelloSlot)
               /\ req' = [req EXCEPT ![HelloSlot] = NewReq(1, HELLO_RESPONSE)]
               /\ outcome' = [outcome EXCEPT ![HelloSlot] = <<>>]
               /\ lastTx' = Frame(transport, HELLO_REQUEST)
               /\ ctask' = [ctask EXCEPT !.attempts = Tail(ctask.attempts),
                                         !.tried = Append(failed,
                                             [version |-> Head(ctask.attempts), result |-> "pending"])]
               /\ UNCHANGED <<transport, is_connected, tstate, cresult>>
          ELSE /\ subscribers' = Remove(subscribers, HelloSlot)
               /\ req' = [req EXCEPT ![HelloSlot] = DoneReq]
               /\ outcome' = [outcome EXCEPT ![HelloSlot] =
                                 IF ctask.attempts = <<>>
                                 THEN Append(@, "timeout")
                                 ELSE <<"conn_error">>]
               /\ ctask' = [ctask EXCEPT !.pc = "idle", !.attempts = <<>>,
                                         !.tried = failed \o
                                             [i \in 1..Len(ctask.attempts) |->
                                                 [version |-> ctask.attempts[i], result |-> "fail"]]]
               /\ close
               /\ cresult' = "hello_failed"
               /\ UNCHANGED lastTx
    /\ UNCHANGED <<local_protocol_version, connect_nonce, ack_nonce, encoder, decoder,
                   data_received, messages_cb, lastRx, negotiated, notLocal>>

\* LocalChannel.send_message called by a caller: subscribe, publish and, if
\* publish did not raise, await the future
SendMessage(s, id, writable) ==
    /\ component \in LocalComponents
    /\ s \in ActiveCallers
    /\ req[s].pc = "idle"
    /\ IF ~CanPublish
       THEN /\ req' = [req EXCEPT ![s] = DoneReq]
            /\ outcome' = [outcome EXCEPT ![s] = <<"conn_error">>]
            /\ UNCHANGED <<subscribers, lastTx>>
       ELSE IF ~writable
       THEN /\ req' = [req EXCEPT ![s] = DoneReq]
            /\ outcome' = [outcome EXCEPT ![s] = <<"publish_error">>]
            /\ UNCHANGED <<subscribers, lastTx>>
       ELSE /\ req' = [req EXCEPT ![s] = NewReq(id, RPC_RESPONSE)]
            /\ outcome' = [outcome EXCEPT ![s] = <<>>]
            /\ subscribers' = Append(subscribers, s)
            /\ lastTx' = Frame(transport, RPC_REQUEST)
    /\ UNCHANGED <<transport, is_connected, local_protocol_version, connect_nonce, ack_nonce,
                   encoder, decoder, data_received, tstate, messages_cb, ctask, cresult,
                   lastRx, negotiated, notLocal>>

\* send_message resumes with the result of its future and returns it
SendReturn(s) ==
    /\ component \in LocalComponents
    /\ req[s].pc = "waiting"
    /\ req[s].future = "done"
    /\ req' = [req EXCEPT ![s] = DoneReq]
    /\ outcome' = [outcome EXCEPT ![s] = Append(@, "returned")]
    /\ subscribers' = Remove(subscribers, s)
    /\ UNCHANGED <<transport, is_connected, local_protocol_version, connect_nonce, ack_nonce,
                   encoder, decoder, data_received, tstate, messages_cb, lastTx, ctask,
                   cresult, lastRx, negotiated, notLocal>>

\* a timeout that raises to the caller but leaves the future pending and the
\* subscriber registered
SendTimeoutStillSubscribed(s) ==
    /\ component \in LocalComponents
    /\ req[s].pc = "waiting"
    /\ Len(outcome[s]) < 2
    /\ outcome' = [outcome EXCEPT ![s] = Append(@, "timeout")]
    /\ UNCHANGED <<transport, is_connected, local_protocol_version, connect_nonce, ack_nonce,
                   encoder, decoder, data_received, tstate, messages_cb, lastTx, ctask,
                   cresult, lastRx, negotiated, req, subscribers, notLocal>>

\* wait_for times out: the future is cancelled (a no-op on a future that is
\* already done) and a RoborockException raised
SendTimeout(s) ==
    /\ component \in LocalComponents
    /\ req[s].pc = "waiting"
    /\ req' = [req EXCEPT ![s] = DoneReq]
    /\ outcome' = [outcome EXCEPT ![s] = Append(@, "timeout")]
    /\ subscribers' = Remove(subscribers, s)
    /\ UNCHANGED <<transport, is_connected, local_protocol_version, connect_nonce, ack_nonce,
                   encoder, decoder, data_received, tstate, messages_cb, lastTx, ctask,
                   cresult, lastRx, negotiated, notLocal>>

\* a cancellation that skips the finally clause of send_message
SendCancelledStillSubscribed(s) ==
    /\ component = "cancel"
    /\ req[s].pc = "waiting"
    /\ req' = [req EXCEPT ![s] = DoneReq]
    /\ outcome' = [outcome EXCEPT ![s] = Append(@, "cancelled")]
    /\ UNCHANGED <<transport, is_connected, local_protocol_version, connect_nonce, ack_nonce,
                   encoder, decoder, data_received, tstate, messages_cb, lastTx, ctask,
                   cresult, lastRx, negotiated, subscribers, notLocal>>

\* the task awaiting send_message is cancelled: CancelledError is raised at
\* the await of wait_for, no except clause matches and the finally clause
\* calls unsub()
SendCancelled(s) ==
    /\ component = "cancel"
    /\ req[s].pc = "waiting"
    /\ req' = [req EXCEPT ![s] = DoneReq]
    /\ outcome' = [outcome EXCEPT ![s] = Append(@, "cancelled")]
    /\ subscribers' = Remove(subscribers, s)
    /\ UNCHANGED <<transport, is_connected, local_protocol_version, connect_nonce, ack_nonce,
                   encoder, decoder, data_received, tstate, messages_cb, lastTx, ctask,
                   cresult, lastRx, negotiated, notLocal>>

\* _LocalProtocol.data_received on transport t: messages_cb decodes the bytes
\* and dispatches each decoded message to the subscribers
DataReceived(t, m) ==
    /\ component \in LocalComponents
    /\ tstate[t] = "open"
    /\ LET dec == messages_cb[t]
           ok == Decodes(m, dec)
       IN /\ req' = IF ok
                    THEN [s \in Slots |-> IF s \in Range(subscribers)
                                          THEN find_response(req[s], m)
                                          ELSE req[s]]
                    ELSE req
          /\ lastRx' = IF t \in negotiated
                        THEN [used |-> dec, current |-> decoder, negotiated |-> TRUE]
                        ELSE lastRx
    /\ UNCHANGED <<transport, is_connected, local_protocol_version, connect_nonce, ack_nonce,
                   encoder, decoder, data_received, subscribers, tstate, messages_cb, outcome,
                   lastTx, ctask, cresult, negotiated, notLocal>>

\* _LocalProtocol.connection_lost of transport t -> LocalChannel._connection_lost
ConnectionLost(t) ==
    /\ component \in LocalComponents
    /\ tstate[t] \in {"open", "closing"}
    /\ tstate' = [tstate EXCEPT ![t] = "lost"]
    /\ messages_cb' = [messages_cb EXCEPT ![t] = NoDecoder]
    /\ transport' = None
    /\ is_connected' = FALSE
    /\ UNCHANGED <<local_protocol_version, connect_nonce, ack_nonce, encoder, decoder,
                   data_received, subscribers, req, outcome, lastTx, ctask,
                   cresult, lastRx, negotiated, notLocal>>

\* LocalChannel.close called by the owner of the channel
Close ==
    /\ component \in LocalComponents
    /\ transport # None
    /\ close
    /\ UNCHANGED <<local_protocol_version, connect_nonce, ack_nonce, encoder, decoder,
                   data_received, subscribers, messages_cb, req, outcome, lastTx, ctask,
                   cresult, lastRx, negotiated, notLocal>>

NextLocal ==
    \/ Connect
    \/ ConnectRefused
    \/ ConnectOpened
    \/ HelloReturn
    \/ HelloTimeout
    \/ \E s \in Callers, id \in RequestIds, w \in BOOLEAN : SendMessage(s, id, w)
    \/ \E s \in Callers : SendReturn(s)
    \/ \E s \in Callers : SendTimeout(s)
    \/ \E t \in Transports, m \in DeviceMsgs : DataReceived(t, m)
    \/ \E t \in Transports : ConnectionLost(t)
    \/ Close



(***************************************************************************)
(* Q7 send_decoded_command (roborock/devices/b01_channel.py)               *)
(***************************************************************************)
Q7Calls == {"p", "q"}
\* the values get_next_int returns for msg_id
Q7MsgIds == {1, 2}
NoMsgId == 0
Q7Keys == {"x", "y"}
EmptyDict == [k \in Q7Keys |-> 0]
\* the dicts a response carries under "data"; 0 is an absent key
Q7Dicts == {[x |-> 1, y |-> 0], [x |-> 2, y |-> 2]}
NotADict == [k \in Q7Keys |-> 3]

\* the values of the decoded dps: not a string, a string that is not JSON,
\* JSON that is not an object, and an object with its msgId and data
DpsValues ==
    [kind : {"int", "text", "json_list"}, msgId : {NoMsgId}, data : {NotADict}]
    \cup
    [kind : {"json_dict"}, msgId : Q7MsgIds \cup {NoMsgId}, data : Q7Dicts \cup {NotADict}]

\* the inbound messages: whether decode_rpc_response succeeds, and the dps
Q7Msgs ==
    {[decodes |-> FALSE, dps |-> <<>>]}
    \cup
    [decodes : {TRUE}, dps : {<<v>> : v \in DpsValues}]
    \cup
    [decodes : {TRUE}, dps : {<<v, w>> : v \in {d \in DpsValues : d.kind = "json_dict"},
                                         w \in {d \in DpsValues : d.kind = "json_dict"}}]

Q7Idle == [pc |-> "idle", msg_id |-> NoMsgId, finished |-> FALSE, result |-> EmptyDict,
           from |-> {}]

Q7Done == [Q7Idle EXCEPT !.pc = "done"]

\* dict.update
update(d, e) == [k \in Q7Keys |-> IF e[k] # 0 THEN e[k] ELSE d[k]]

\* the body of the loop of find_response for one dps value
q7_handle_value(r, v) ==
    IF v.kind = "json_dict" /\ v.msgId = r.msg_id
    THEN [r EXCEPT !.result = IF v.data \in Q7Dicts THEN update(r.result, v.data) ELSE @,
                   !.finished = TRUE,
                   !.from = @ \cup {v.msgId}]
    ELSE r

RECURSIVE q7_handle_values(_, _)
q7_handle_values(r, dps) ==
    IF dps = <<>> THEN r
    ELSE q7_handle_values(q7_handle_value(r, Head(dps)), Tail(dps))

\* send_decoded_command.find_response
q7_find_response(r, m) ==
    IF ~m.decodes THEN r ELSE q7_handle_values(r, m.dps)

InitQ7Vars ==
    /\ q7req = [c \in Q7Calls |-> Q7Idle]
    /\ q7subs = <<>>
    /\ q7out = [c \in Q7Calls |-> <<>>]


\* send_decoded_command up to the await of finished.wait(); publish raising
\* runs the finally clause and propagates
Q7Send(c, id, published) ==
    /\ component = "q7"
    /\ q7req[c].pc = "idle"
    /\ IF published
       THEN /\ q7req' = [q7req EXCEPT ![c] = [Q7Idle EXCEPT !.pc = "waiting", !.msg_id = id]]
            /\ q7subs' = Append(q7subs, c)
            /\ UNCHANGED q7out
       ELSE /\ q7req' = [q7req EXCEPT ![c] = Q7Done]
            /\ q7out' = [q7out EXCEPT ![c] = <<"publish_error">>]
            /\ UNCHANGED q7subs
    /\ UNCHANGED notQ7

\* the MqttChannel dispatches a message to its subscribers
Q7Receive(m) ==
    /\ component = "q7"
    /\ q7req' = [c \in Q7Calls |-> IF c \in Range(q7subs)
                                   THEN q7_find_response(q7req[c], m)
                                   ELSE q7req[c]]
    /\ UNCHANGED <<q7subs, q7out, notQ7>>

\* finished.wait() returns: unsubscribe and return result
Q7Return(c) ==
    /\ component = "q7"
    /\ q7req[c].pc = "waiting"
    /\ q7req[c].finished
    /\ q7req' = [q7req EXCEPT ![c].pc = "done"]
    /\ q7out' = [q7out EXCEPT ![c] = Append(@, "returned")]
    /\ q7subs' = Remove(q7subs, c)
    /\ UNCHANGED notQ7

\* wait_for times out: unsubscribe and raise RoborockException
Q7Timeout(c) ==
    /\ component = "q7"
    /\ q7req[c].pc = "waiting"
    /\ q7req' = [q7req EXCEPT ![c] = Q7Done]
    /\ q7out' = [q7out EXCEPT ![c] = Append(@, "timeout")]
    /\ q7subs' = Remove(q7subs, c)
    /\ UNCHANGED notQ7

\* the task awaiting send_decoded_command is cancelled at the await of
\* wait_for: the finally clause unsubscribes and CancelledError propagates
Q7Cancelled(c) ==
    /\ component = "q7"
    /\ q7req[c].pc = "waiting"
    /\ q7req' = [q7req EXCEPT ![c] = Q7Done]
    /\ q7out' = [q7out EXCEPT ![c] = Append(@, "cancelled")]
    /\ q7subs' = Remove(q7subs, c)
    /\ UNCHANGED notQ7

NextQ7 ==
    \/ \E c \in Q7Calls, id \in Q7MsgIds, published \in BOOLEAN : Q7Send(c, id, published)
    \/ \E m \in Q7Msgs : Q7Receive(m)
    \/ \E c \in Q7Calls : Q7Return(c)
    \/ \E c \in Q7Calls : Q7Timeout(c)

(***************************************************************************)
(* RoborockLocalClientV1 (version_1_apis/roborock_local_client_v1.py)      *)
(***************************************************************************)
GET_STATUS == "get_status"
GET_MAP_V1 == "get_map_v1"
Methods == {GET_STATUS, GET_MAP_V1}
\* the methods only the cloud implements
CLOUD_REQUIRED == {GET_MAP_V1}

ClCalls == {"u", "w"}

ClIdle == [pc |-> "idle", method |-> "none"]

InitClientVars ==
    /\ clTransport = None
    /\ clVersion = NoVersion
    /\ clCall = [c \in ClCalls |-> ClIdle]
    /\ clOut = [c \in ClCalls |-> <<>>]
    /\ clEncoded = {}
    /\ clWritten = {}

\* _send_command without the CLOUD_REQUIRED check
ClSendCommandUnchecked(c, method) ==
    /\ component = "client"
    /\ clCall[c].pc = "idle"
    /\ clCall' = [clCall EXCEPT ![c] = [pc |-> "validating", method |-> method]]
    /\ UNCHANGED <<clTransport, clVersion, clOut, clEncoded, clWritten, notClient>>

\* RoborockLocalClientV1._send_command up to the first await of
\* _send_message (validate_connection)
ClSendCommand(c, method) ==
    /\ component = "client"
    /\ clCall[c].pc = "idle"
    /\ IF method \in CLOUD_REQUIRED
       THEN /\ clCall' = [clCall EXCEPT ![c] = [pc |-> "done", method |-> method]]
            /\ clOut' = [clOut EXCEPT ![c] = <<"unsupported">>]
       ELSE /\ clCall' = [clCall EXCEPT ![c] = [pc |-> "validating", method |-> method]]
            /\ UNCHANGED clOut
    /\ UNCHANGED <<clTransport, clVersion, clEncoded, clWritten, notClient>>

\* validate_connection is over: it raised, or it returned with or without a
\* transport (a first connection negotiates version v); _send_message then
\* encodes the message and _send_msg_raw writes it or raises
ClSendMessage(c, validated, v) ==
    /\ component = "client"
    /\ clCall[c].pc = "validating"
    /\ IF validated = "raised"
       THEN /\ clCall' = [clCall EXCEPT ![c].pc = "done"]
            /\ clOut' = [clOut EXCEPT ![c] = <<"conn_error">>]
            /\ UNCHANGED <<clTransport, clVersion, clEncoded, clWritten>>
       ELSE /\ clTransport' = IF validated = "connected" THEN 1 ELSE clTransport
            /\ clVersion' = IF validated = "connected" /\ clTransport = None /\ clVersion = NoVersion
                            THEN v ELSE clVersion
            /\ clEncoded' = clEncoded \cup {clCall[c].method}
            /\ IF clTransport' = None
               THEN /\ clCall' = [clCall EXCEPT ![c].pc = "done"]
                    /\ clOut' = [clOut EXCEPT ![c] = <<"send_error">>]
                    /\ UNCHANGED clWritten
               ELSE /\ clCall' = [clCall EXCEPT ![c].pc = "waiting"]
                    /\ clWritten' = clWritten \cup {clCall[c].method}
                    /\ UNCHANGED clOut
    /\ UNCHANGED notClient

\* the awaited response: a result, a VacuumError, "retry", or a timeout
ClResponse(c, kind) ==
    /\ component = "client"
    /\ clCall[c].pc = "waiting"
    /\ clCall' = [clCall EXCEPT ![c].pc = "done"]
    /\ clOut' = [clOut EXCEPT ![c] = Append(@, kind)]
    /\ UNCHANGED <<clTransport, clVersion, clEncoded, clWritten, notClient>>

\* _connection_lost / _sync_disconnect: the transport is closed
ClConnectionLost ==
    /\ component = "client"
    /\ clTransport # None
    /\ clTransport' = None
    /\ UNCHANGED <<clVersion, clCall, clOut, clEncoded, clWritten, notClient>>

NextClient ==
    \/ \E c \in ClCalls, method \in Methods : ClSendCommand(c, method)
    \/ \E c \in ClCalls, validated \in {"raised", "connected", "returned"}, v \in Versions :
           ClSendMessage(c, validated, v)
    \/ \E c \in ClCalls, kind \in {"returned", "vacuum_error", "retry", "timeout"} :
           ClResponse(c, kind)
    \/ ClConnectionLost

(***************************************************************************)
(* V1Channel (roborock/devices/v1_channel.py)                              *)
(***************************************************************************)
\* hours after which the cached network info is refreshed
NETWORK_INFO_REFRESH_INTERVAL == 12
NoHost == "none"
Hosts == {"10.0.0.4", "10.0.0.5"}

NoCmd == [method |-> "none", had_local |-> FALSE, local_env |-> "none", mqtt_env |-> "none",
          local_sent |-> 0, mqtt_sent |-> 0, outcome |-> "none"]

NoConn == [use_cache |-> FALSE, cached |-> NoHost, rpc |-> "none", host |-> NoHost,
           raised |-> "none"]

InitV1Vars ==
    /\ v1 \in [mqtt_connected : {FALSE}, local_connected : {FALSE},
               cache : Hosts \cup {NoHost}, age : {0, MaxAge}]
    /\ v1.cache = NoHost => v1.age = 0
    /\ v1cmd = NoCmd
    /\ v1conn = NoConn
    /\ v1bg = [tries |-> 0,                        \* attempts of the reconnect loop
               closed |-> FALSE,                   \* the unsubscribe handle was called
               raised |-> FALSE,                   \* a subscribe raised ValueError
               unsubs |-> [mqtt |-> 0, local |-> 0]]  \* calls of the unsubscribe
                                                   \* handles of the two legs

\* a V1Channel with commands and passing time, or one that is only
\* subscribed to and released
V1Components == {"v1", "v1sub"}

\* the reconnect attempts are counted modulo three
Marks == {0, 1, 2}
NextMark(m) == (m + 1) % Cardinality(Marks)

\* _should_use_cache: the cached network info is younger than the interval
ShouldUseCache(age) == age <= NETWORK_INFO_REFRESH_INTERVAL

\* send_decoded_command: the local channel is used when it is connected and
\* the method is not a cloud-only one
UseLocal(method, had_local) == method \notin CLOUD_REQUIRED /\ had_local

\* the number of MQTT sends when every command also goes over MQTT
MqttSentAlways(use_local, local_env) == 1

\* the number of MQTT sends of one command: none after a local success, one
\* otherwise
MqttSent(use_local, local_env) == IF use_local /\ local_env = "ok" THEN 0 ELSE 1

\* what the caller gets when a local failure is raised to it
OutcomeNoRetry(use_local, local_env, mqtt_env) ==
    IF use_local
    THEN IF local_env = "ok" THEN "local_response" ELSE "error"
    ELSE IF mqtt_env = "ok" THEN "mqtt_response" ELSE "error"

\* what the caller gets: the local response, else the MQTT response, else
\* the error of the MQTT attempt
Outcome(use_local, local_env, mqtt_env) ==
    IF use_local /\ local_env = "ok" THEN "local_response"
    ELSE IF mqtt_env = "ok" THEN "mqtt_response" ELSE "error"

\* the routing of V1Channel.send_decoded_command
Route(method, had_local, local_env, mqtt_env) ==
    LET use_local == UseLocal(method, had_local)
    IN [local_sent |-> IF use_local THEN 1 ELSE 0,
        mqtt_sent |-> MqttSent(use_local, local_env),
        outcome |-> Outcome(use_local, local_env, mqtt_env)]

\* _get_networking_info that raises whenever the RPC fails
NetworkingInfoNoFallback(use_cache, cached, rpc) ==
    IF use_cache /\ cached # NoHost
    THEN [rpc |-> "skipped", host |-> cached, raised |-> "none", refreshed |-> FALSE]
    ELSE IF rpc # "fail"
    THEN [rpc |-> "ok", host |-> rpc, raised |-> "none", refreshed |-> TRUE]
    ELSE [rpc |-> "fail", host |-> NoHost, raised |-> "rpc", refreshed |-> FALSE]

\* the host _local_connect connects to: the cached one inside the refresh
\* interval, else the one the RPC returns, else the stale cached one
NetworkingInfo(use_cache, cached, rpc) ==
    IF use_cache /\ cached # NoHost
    THEN [rpc |-> "skipped", host |-> cached, raised |-> "none", refreshed |-> FALSE]
    ELSE IF rpc # "fail"
    THEN [rpc |-> "ok", host |-> rpc, raised |-> "none", refreshed |-> TRUE]
    ELSE IF cached # NoHost
    THEN [rpc |-> "fail", host |-> cached, raised |-> "none", refreshed |-> FALSE]
    ELSE [rpc |-> "fail", host |-> NoHost, raised |-> "rpc", refreshed |-> FALSE]

\* V1Channel._local_connect(use_cache): rpc is "fail" or the host the RPC
\* returns, connected says whether LocalChannel.connect succeeds
local_connect(use_cache, rpc, connected) ==
    LET info == NetworkingInfo(use_cache, v1.cache, rpc)
        opened == info.raised = "none" /\ connected
    IN /\ v1' = [v1 EXCEPT !.cache = IF info.refreshed THEN info.host ELSE @,
                           !.age = IF info.refreshed THEN 0 ELSE @,
                           !.local_connected = opened,
                           !.mqtt_connected = TRUE]
       /\ v1conn' = [use_cache |-> use_cache, cached |-> v1.cache, rpc |-> info.rpc,
                     host |-> info.host,
                     raised |-> IF info.raised # "none" THEN info.raised
                                ELSE IF connected THEN "none" ELSE "connect"]

\* V1Channel.subscribe: subscribe to MQTT, then try the local connection; a
\* failure of the local connection is logged
V1Subscribe(rpc, connected) ==
    /\ component \in V1Components
    /\ ~v1.mqtt_connected
    /\ ~v1bg.closed
    /\ local_connect(ShouldUseCache(v1.age), rpc, connected)
    /\ UNCHANGED <<v1cmd, v1bg, notV1>>

\* the background reconnect loop gives up after its first attempt
V1LocalConnectOnce(use_cache, rpc, connected) ==
    /\ component \in V1Components
    /\ v1.mqtt_connected
    /\ ~v1.local_connected
    /\ ~v1bg.closed
    /\ v1bg.tries = 0
    /\ local_connect(use_cache, rpc, connected)
    /\ v1bg' = [v1bg EXCEPT !.tries = NextMark(@)]
    /\ UNCHANGED <<v1cmd, notV1>>

\* V1Channel._local_connect called while the local channel is down, by the
\* reconnect loop or directly
V1LocalConnect(use_cache, rpc, connected) ==
    /\ component \in V1Components
    /\ v1.mqtt_connected
    /\ ~v1.local_connected
    /\ ~v1bg.closed
    /\ local_connect(use_cache, rpc, connected)
    /\ v1bg' = [v1bg EXCEPT !.tries = NextMark(@)]
    /\ UNCHANGED <<v1cmd, notV1>>

\* V1Channel.send_decoded_command
V1Send(method, local_env, mqtt_env) ==
    /\ component = "v1"
    /\ v1.mqtt_connected
    /\ LET r == Route(method, v1.local_connected, local_env, mqtt_env)
       IN /\ v1cmd' = [method |-> method, had_local |-> v1.local_connected,
                       local_env |-> local_env, mqtt_env |-> mqtt_env,
                       local_sent |-> r.local_sent, mqtt_sent |-> r.mqtt_sent,
                       outcome |-> r.outcome]
          /\ v1' = [v1 EXCEPT !.local_connected =
                        IF r.local_sent = 1 /\ local_env = "disconnected" THEN FALSE ELSE @]
    /\ UNCHANGED <<v1conn, v1bg, notV1>>

\* the local connection is lost
V1LocalLost ==
    /\ component \in V1Components
    /\ v1.local_connected
    /\ v1' = [v1 EXCEPT !.local_connected = FALSE]
    /\ UNCHANGED <<v1cmd, v1conn, v1bg, notV1>>

\* an hour passes
V1Tick ==
    /\ component = "v1"
    /\ v1.age < MaxAge
    /\ v1' = [v1 EXCEPT !.age = @ + 1]
    /\ UNCHANGED <<v1cmd, v1conn, v1bg, notV1>>

\* subscribe on a channel that is subscribed already: ValueError("Already
\* connected to the device")
V1SubscribeAgain ==
    /\ component = "v1sub"
    /\ v1.mqtt_connected
    /\ ~v1bg.closed
    /\ v1bg' = [v1bg EXCEPT !.raised = TRUE]
    /\ UNCHANGED <<v1, v1cmd, v1conn, notV1>>

\* a handle that releases the MQTT leg only
V1CloseMqttOnly ==
    /\ component \in V1Components
    /\ v1.mqtt_connected
    /\ ~v1bg.closed
    /\ v1' = [v1 EXCEPT !.mqtt_connected = FALSE]
    /\ v1bg' = [v1bg EXCEPT !.closed = TRUE, !.unsubs.mqtt = @ + 1]
    /\ UNCHANGED <<v1cmd, v1conn, notV1>>

\* the handle subscribe returned is called: both legs are released and the
\* reconnect loop is cancelled
V1Close ==
    /\ component \in V1Components
    /\ v1.mqtt_connected
    /\ ~v1bg.closed
    /\ v1' = [v1 EXCEPT !.mqtt_connected = FALSE, !.local_connected = FALSE]
    /\ v1bg' = [v1bg EXCEPT !.closed = TRUE,
                            !.unsubs.mqtt = @ + 1,
                            !.unsubs.local = IF v1.local_connected THEN @ + 1 ELSE @]
    /\ UNCHANGED <<v1cmd, v1conn, notV1>>

\* a V1Channel that is subscribed to, loses and regains its local leg, and
\* is released
NextV1Sub ==
    \/ \E rpc \in Hosts \cup {"fail"}, connected \in BOOLEAN : V1Subscribe(rpc, connected)
    \/ V1SubscribeAgain
    \/ \E use_cache \in BOOLEAN, rpc \in Hosts \cup {"fail"}, connected \in BOOLEAN :
           V1LocalConnect(use_cache, rpc, connected)
    \/ V1LocalLost
    \/ V1Close

NextV1 ==
    \/ \E rpc \in Hosts \cup {"fail"}, connected \in BOOLEAN : V1Subscribe(rpc, connected)
    \/ \E use_cache \in BOOLEAN, rpc \in Hosts \cup {"fail"}, connected \in BOOLEAN :
           V1LocalConnect(use_cache, rpc, connected)
    \/ \E method \in Methods, local_env \in {"ok", "timeout", "disconnected"},
          mqtt_env \in {"ok", "fail"} : V1Send(method, local_env, mqtt_env)
    \/ V1LocalLost
    \/ V1Tick
    \/ V1Close

(***************************************************************************)
(* RoborockDevice (roborock/devices/device.py)                             *)
(***************************************************************************)
\* A device is explored in two scenarios: "device" has ready callbacks and
\* callers of connect(), start_connect() and close(); "backoff" has a connect
\* loop that fails many times.
DeviceComponents == {"device", "backoff"}

\* timedelta values are in microseconds, as timedelta stores them
MIN_BACKOFF_INTERVAL == 10000000
MAX_BACKOFF_INTERVAL == 1800000000
\* 1.5 as the integer ratio timedelta.__mul__ takes from the float
BACKOFF_MULTIPLIER == <<3, 2>>

ReadyCallbacks == {"r1", "r2"}

\* timedelta * 1.5: usec * 3 / 2 rounded to the nearest microsecond, ties to
\* even.  usec * 3 = 2 * (usec + usec \div 2) + usec % 2, which keeps the
\* intermediate values inside 32 bits.
timedelta_mul(usec) ==
    LET q == usec + (usec \div BACKOFF_MULTIPLIER[2])
        r == usec % BACKOFF_MULTIPLIER[2]
    IN IF r * 2 = BACKOFF_MULTIPLIER[2] /\ q % 2 = 1 THEN q + 1 ELSE q

\* a backoff that stays at its first value
NextBackoffConstant(backoff) == MIN_BACKOFF_INTERVAL

\* min(backoff * BACKOFF_MULTIPLIER, MAX_BACKOFF_INTERVAL); above two thirds
\* of the maximum the product is above the maximum
NextBackoff(backoff) ==
    IF backoff > (MAX_BACKOFF_INTERVAL \div BACKOFF_MULTIPLIER[1]) * BACKOFF_MULTIPLIER[2]
    THEN MAX_BACKOFF_INTERVAL
    ELSE IF timedelta_mul(backoff) < MAX_BACKOFF_INTERVAL
         THEN timedelta_mul(backoff) ELSE MAX_BACKOFF_INTERVAL

NoAdd == [cb |-> "none", connected |-> FALSE, invoked |-> FALSE]

\* the device after __init__, with nobody calling it
NewDevice(props) ==
    [props |-> props,                  \* self.v1_properties is not None
     connect_task |-> "none",          \* self._connect_task: where connect_loop is
     cancel |-> FALSE,                 \* cancel() was called on a running task
     backoff |-> 0,                    \* the local backoff of connect_loop
     sleeps |-> <<>>,                  \* the intervals connect_loop has slept
     last |-> "none",                  \* how the last attempt of the loop ended
     start_attempt |-> "none",         \* the future start_connect waits for
     start |-> "idle",                 \* the caller of start_connect
     starts |-> 0,
     unsub |-> FALSE,                  \* self._unsub is set
     has_connected |-> FALSE,          \* self._has_connected
     ready_callbacks |-> <<>>,         \* self._ready_callbacks, in order
     fired |-> <<>>,                   \* the ready callbacks invoked, in order
     subs |-> 0,                       \* subscriptions of _on_message on the channel
     direct |-> "idle",                \* the caller of connect()
     direct_raised |-> FALSE,          \* the last connect() of a caller raised ValueError
     close |-> "idle",                 \* the caller of close()
     closed |-> FALSE,                 \* close() returned, and since then nothing was
                                       \* called and no connect() in flight went on
     ever |-> FALSE,                   \* a connect() has succeeded
     last_add |-> NoAdd]               \* the last add_ready_callback

InitDeviceVars == device \in {NewDevice(props) : props \in BOOLEAN}

FailureLimit == IF component = "backoff" THEN MaxFailures ELSE MaxRetries

\* CallbackList.__call__: every callback of the list is invoked, in order
CallbackListCall(callbacks, fired) == fired \o callbacks

\* the last lines of connect(): the subscription is kept in self._unsub
Connected(d) == [d EXCEPT !.unsub = TRUE, !.ever = TRUE]

\* connect_loop after a connect() that returned: the start attempt is
\* resolved, ready is latched, the ready callbacks are called, the loop ends
LoopSucceeded(d) ==
    [d EXCEPT !.start_attempt = IF @ = "pending" THEN "true" ELSE @,
              !.has_connected = TRUE,
              !.fired = CallbackListCall(d.ready_callbacks, @),
              !.connect_task = "done",
              !.last = "ok"]

\* connect_loop after an exception that is not a RoborockException: it is
\* logged and the loop ends
LoopRaised(d) ==
    [d EXCEPT !.start_attempt = IF @ = "pending" THEN "exception" ELSE @,
              !.connect_task = "done",
              !.last = "fatal"]

\* a connect_loop that ends at a RoborockException
LoopFailedEnds(d) ==
    [d EXCEPT !.start_attempt = IF @ = "pending" THEN "false" ELSE @,
              !.connect_task = "done",
              !.last = "transient"]

\* connect_loop after a RoborockException: the start attempt is resolved and
\* the loop sleeps for the backoff
LoopFailed(d) ==
    [d EXCEPT !.start_attempt = IF @ = "pending" THEN "false" ELSE @,
              !.sleeps = Append(@, d.backoff),
              !.connect_task = "sleep",
              !.last = "transient"]

\* connect() up to its first await: it raises ValueError when self._unsub is
\* set, else it awaits channel.subscribe
LoopConnect(d) ==
    IF d.unsub THEN LoopRaised(d) ELSE [d EXCEPT !.connect_task = "subscribe"]

\* what an awaited call of connect() can do
AwaitResults == {"ok", "roborock_error", "error"}

\* the end of close(): the subscription held in self._unsub is released
CloseFinish(d) ==
    [d EXCEPT !.subs = IF d.unsub THEN @ - 1 ELSE @,
              !.unsub = FALSE,
              !.close = "idle",
              !.closed = TRUE]

\* start_connect up to "await start_attempt": the future and the task are
\* created
StartConnect ==
    /\ component \in DeviceComponents
    /\ device.start # "waiting"
    /\ device.close = "idle"
    /\ device.connect_task \in {"none", "done"}
    /\ device.starts < MaxStarts
    /\ device' = [device EXCEPT !.start_attempt = "pending",
                                !.connect_task = "created",
                                !.cancel = FALSE,
                                !.backoff = 0,
                                !.sleeps = <<>>,
                                !.last = "none",
                                !.start = "waiting",
                                !.starts = @ + 1,
                                !.closed = FALSE]
    /\ UNCHANGED notDevice

\* the first step of the connect_loop task
TaskStart ==
    /\ component \in DeviceComponents
    /\ device.connect_task = "created"
    /\ ~device.cancel
    /\ device' = LoopConnect([device EXCEPT !.backoff = MIN_BACKOFF_INTERVAL])
    /\ UNCHANGED notDevice

\* channel.subscribe awaited by the connect() of connect_loop is over
SubscribeReturns(result) ==
    /\ component \in DeviceComponents
    /\ device.connect_task = "subscribe"
    /\ ~device.cancel
    /\ result = "ok" => device.subs < MaxSubs
    /\ result = "roborock_error" => Len(device.sleeps) < FailureLimit
    /\ device' =
         CASE result = "ok" ->
                  LET d == [device EXCEPT !.subs = @ + 1]
                  IN IF d.props THEN [d EXCEPT !.connect_task = "discover"]
                     ELSE LoopSucceeded(Connected(d))
           [] result = "roborock_error" -> LoopFailed(device)
           [] OTHER -> LoopRaised(device)
    /\ UNCHANGED notDevice

\* discover_features awaited by the connect() of connect_loop is over
DiscoverReturns(result) ==
    /\ component \in DeviceComponents
    /\ device.connect_task = "discover"
    /\ ~device.cancel
    /\ result = "roborock_error" => Len(device.sleeps) < FailureLimit
    /\ device' =
         CASE result = "ok" -> LoopSucceeded(Connected(device))
           [] result = "roborock_error" -> LoopFailed([device EXCEPT !.subs = @ - 1])
           [] OTHER -> LoopRaised(device)
    /\ UNCHANGED notDevice

\* asyncio.sleep(backoff) is over: the backoff grows and connect() is called
WakeUp ==
    /\ component \in DeviceComponents
    /\ device.connect_task = "sleep"
    /\ ~device.cancel
    /\ device' = LoopConnect([device EXCEPT !.backoff = NextBackoff(@), !.last = "none"])
    /\ UNCHANGED notDevice

\* the CancelledError of cancel() reaches the task: connect_loop catches it
\* and its finally clause resolves the start attempt; a task cancelled before
\* its first step never enters connect_loop
TaskCancelled ==
    /\ component \in DeviceComponents
    /\ device.cancel
    /\ device.connect_task \in {"created", "subscribe", "discover", "sleep"}
    /\ device' = [device EXCEPT
                     !.start_attempt = IF @ = "pending" /\ device.connect_task # "created"
                                       THEN "false" ELSE @,
                     !.connect_task = "done",
                     !.cancel = FALSE,
                     !.last = "cancelled"]
    /\ UNCHANGED notDevice

\* "await start_attempt" is over: start_connect returns, or raises the
\* exception set on the future
StartReturns ==
    /\ component \in DeviceComponents
    /\ device.start = "waiting"
    /\ device.start_attempt \in {"true", "false", "exception"}
    /\ device' = [device EXCEPT !.start = IF device.start_attempt = "exception"
                                          THEN "raised" ELSE "returned"]
    /\ UNCHANGED notDevice

\* START_ATTEMPT_TIMEOUT expires: the wait is cancelled, with it the future,
\* and the TimeoutError is caught
StartTimeout ==
    /\ component \in DeviceComponents
    /\ device.start = "waiting"
    /\ device.start_attempt = "pending"
    /\ device' = [device EXCEPT !.start_attempt = "cancelled", !.start = "returned"]
    /\ UNCHANGED notDevice

\* a connect() that does not look at self._unsub
DirectConnectUnchecked ==
    /\ component = "device"
    /\ device.direct = "idle"
    /\ device.close = "idle"
    /\ device' = [device EXCEPT !.direct = "subscribe", !.closed = FALSE,
                                !.direct_raised = FALSE]
    /\ UNCHANGED notDevice

\* a caller calls connect(): ValueError when self._unsub is set
DirectConnect ==
    /\ component = "device"
    /\ device.direct = "idle"
    /\ device.close = "idle"
    /\ device' = IF device.unsub
                 THEN [device EXCEPT !.closed = FALSE, !.direct_raised = TRUE]
                 ELSE [device EXCEPT !.direct = "subscribe", !.closed = FALSE,
                                     !.direct_raised = FALSE]
    /\ UNCHANGED notDevice

\* channel.subscribe awaited by the caller's connect() is over
DirectSubscribeReturns(result) ==
    /\ component = "device"
    /\ device.direct = "subscribe"
    /\ result = "ok" => device.subs < MaxSubs
    /\ device' =
         IF result = "ok"
         THEN LET d == [device EXCEPT !.subs = @ + 1, !.closed = FALSE]
              IN IF d.props THEN [d EXCEPT !.direct = "discover"]
                 ELSE [Connected(d) EXCEPT !.direct = "idle"]
         ELSE [device EXCEPT !.direct = "idle", !.closed = FALSE]
    /\ UNCHANGED notDevice

\* discover_features awaited by the caller's connect() is over
DirectDiscoverReturns(result) ==
    /\ component = "device"
    /\ device.direct = "discover"
    /\ device' =
         CASE result = "ok" ->
                  [Connected(device) EXCEPT !.direct = "idle", !.closed = FALSE]
           [] result = "roborock_error" ->
                  [device EXCEPT !.subs = @ - 1, !.direct = "idle", !.closed = FALSE]
           [] OTHER -> [device EXCEPT !.direct = "idle", !.closed = FALSE]
    /\ UNCHANGED notDevice

\* add_ready_callback
AddReadyCallback(cb) ==
    /\ component = "device"
    /\ cb \notin Range(device.ready_callbacks)
    /\ device' = [device EXCEPT
                     !.ready_callbacks = Append(@, cb),
                     !.fired = IF device.has_connected THEN Append(@, cb) ELSE @,
                     !.last_add = [cb |-> cb, connected |-> device.ever,
                                   invoked |-> device.has_connected]]
    /\ UNCHANGED notDevice

\* close() up to "await self._connect_task"; a task that is done is awaited
\* without suspending
DeviceClose ==
    /\ component \in DeviceComponents
    /\ device.close = "idle"
    /\ device' =
         IF device.connect_task \in {"none", "done"}
         THEN CloseFinish(device)
         ELSE [device EXCEPT !.cancel = TRUE, !.close = "awaiting"]
    /\ UNCHANGED notDevice

\* the awaited task is over: close() goes on
DeviceCloseResume ==
    /\ component \in DeviceComponents
    /\ device.close = "awaiting"
    /\ device.connect_task = "done"
    /\ device' = CloseFinish(device)
    /\ UNCHANGED notDevice

\* start_connect, its connect loop, and close
NextConnectLoop ==
    \/ StartConnect
    \/ TaskStart
    \/ \E result \in AwaitResults : SubscribeReturns(result)
    \/ \E result \in AwaitResults : DiscoverReturns(result)
    \/ WakeUp
    \/ TaskCancelled
    \/ StartReturns
    \/ StartTimeout
    \/ DeviceClose
    \/ DeviceCloseResume

NextDevice ==
    \/ NextConnectLoop
    \/ DirectConnect
    \/ \E result \in AwaitResults : DirectSubscribeReturns(result)
    \/ \E result \in AwaitResults : DirectDiscoverReturns(result)
    \/ \E cb \in ReadyCallbacks : AddReadyCallback(cb)

(***************************************************************************)
(* B01Q10MessageRouter and _flatten_q10_dps                                *)
(* (roborock/devices/b01_q10_channel.py)                                   *)
(***************************************************************************)
\* the DP that carries the dpCommon envelope
DP_COMMON == 101
DpKeys == {25, DP_COMMON, 122}
DpScalars == {1, 2}
\* the keys of an envelope, as the strings JSON gives
InnerKeys == {"25", "025", "x"}
InnerValues == {3, 4}
NotInt == 0 - 1

\* int(inner_k): the integer the string denotes, NotInt when it raises
IntOf(k) == CASE k = "25" -> 25
              [] k = "025" -> 25
              [] OTHER -> NotInt

Scalar(v) == [kind |-> "scalar", v |-> v, items |-> <<>>]
Dict(items) == [kind |-> "dict", v |-> 0, items |-> items]
Absent == [kind |-> "absent", v |-> 0, items |-> <<>>]

\* a dict in insertion order: a sequence of entries with distinct keys
DistinctKeys(seq, key(_)) ==
    \A i, j \in 1..Len(seq) : i # j => key(seq[i]) # key(seq[j])

InnerKeyOf(e) == e.k
DpOf(e) == e.dp

SeqsUpTo(S, n) == UNION {[1..m -> S] : m \in 0..n}

Envelopes ==
    {e \in SeqsUpTo([k : InnerKeys, v : InnerValues], MaxInner) : DistinctKeys(e, InnerKeyOf)}

\* the entries of a decoded DP map: scalars, and under 101 also an envelope
DpEntries ==
    [dp : DpKeys, value : {Scalar(v) : v \in DpScalars}]
    \cup
    [dp : {DP_COMMON}, value : {Dict(e) : e \in Envelopes}]

\* what decode_rpc_response returns
DecodedMaps == {d \in SeqsUpTo(DpEntries, MaxDps) : DistinctKeys(d, DpOf)}

EmptyFlat == [dp \in DpKeys |-> Absent]

\* the inner loop of _flatten_q10_dps over the items of the envelope
RECURSIVE FlattenInner(_, _)
FlattenInner(acc, items) ==
    IF items = <<>> THEN acc
    ELSE LET inner_dp == IntOf(Head(items).k)
         IN FlattenInner(IF inner_dp = NotInt THEN acc
                         ELSE [acc EXCEPT ![inner_dp] = Scalar(Head(items).v)],
                         Tail(items))

RECURSIVE FlattenDpsNoHoist(_, _)
RECURSIVE FlattenDps(_, _)

\* a loop that stores the envelope like any other value
FlattenDpsNoHoist(acc, decoded) ==
    IF decoded = <<>> THEN acc
    ELSE FlattenDpsNoHoist([acc EXCEPT ![Head(decoded).dp] = Head(decoded).value],
                           Tail(decoded))

\* the loop of _flatten_q10_dps over decoded.items()
FlattenDps(acc, decoded) ==
    IF decoded = <<>> THEN acc
    ELSE LET e == Head(decoded)
         IN IF e.dp = DP_COMMON /\ e.value.kind = "dict"
            THEN FlattenDps(FlattenInner(acc, e.value.items), Tail(decoded))
            ELSE FlattenDps([acc EXCEPT ![e.dp] = e.value], Tail(decoded))

flatten_q10_dps(decoded) == FlattenDps(EmptyFlat, decoded)

InitFlatVars == flat = [decoded |-> <<>>, out |-> EmptyFlat, done |-> FALSE]

\* one call of _flatten_q10_dps
Flatten ==
    /\ component = "flatten"
    /\ ~flat.done
    /\ flat' = [flat EXCEPT !.out = flatten_q10_dps(flat.decoded), !.done = TRUE]
    /\ UNCHANGED <<q10, notQ10>>

NextFlatten == Flatten

MAP_RESPONSE == "MAP_RESPONSE"
Q10Protocols == {RPC_RESPONSE, MAP_RESPONSE, HELLO_RESPONSE}
Q10Callbacks == {"c1", "c2"}

\* the DP maps the messages fed to the router decode to
RouterMaps ==
    {<<>>,
     <<[dp |-> DP_COMMON, value |-> Dict(<<>>)]>>,
     <<[dp |-> DP_COMMON, value |-> Dict(<<[k |-> "25", v |-> 3]>>)],
       [dp |-> 122, value |-> Scalar(2)]>>}

\* the messages fed to the router: decodes says whether decode_rpc_response
\* returns
Q10Msgs ==
    [protocol : {RPC_RESPONSE}, decodes : {TRUE}, decoded : RouterMaps]
    \cup
    [protocol : Q10Protocols, decodes : {FALSE}, decoded : {<<>>}]

NoHandled == [id |-> 0, msg |-> [protocol |-> "none", decodes |-> FALSE, decoded |-> <<>>],
              class |-> "none", registered |-> <<>>, got |-> <<>>, raised |-> {}]

InitQ10Vars ==
    q10 = [queue |-> <<>>,          \* self._queue
           task |-> "none",         \* self._task: none, running, cancelling, done
           callbacks |-> <<>>,      \* self._prop_update_callbacks
           fed |-> 0,               \* messages fed so far
           nhandled |-> 0,          \* calls of _handle_message so far
           last |-> NoHandled,      \* the last call of _handle_message
           handles |-> {},          \* the callbacks a remove handle was returned for
           removes |-> 0,           \* calls of remove handles so far
           unsubscribed |-> {},     \* callbacks whose handle was called since they were added
           seen |-> [cb \in Q10Callbacks |-> <<>>]]  \* per callback: the messages it got

\* "if not dps": the flattened map has no entry
IsEmptyFlat(dps) == \A dp \in DpKeys : dps[dp] = Absent

\* a _handle_rpc_response that calls the callbacks with empty maps too
handle_rpc_response_always(message, callbacks) ==
    IF ~message.decodes THEN <<>> ELSE callbacks

\* _handle_rpc_response: the callbacks that are called with the flattened map
handle_rpc_response(message, callbacks) ==
    IF ~message.decodes THEN <<>>
    ELSE IF IsEmptyFlat(flatten_q10_dps(message.decoded)) THEN <<>>
    ELSE callbacks

\* _handle_message: the class of the message and the callbacks called
handle_message(message, callbacks) ==
    CASE message.protocol = RPC_RESPONSE ->
             [class |-> "rpc", got |-> handle_rpc_response(message, callbacks)]
      [] message.protocol = MAP_RESPONSE -> [class |-> "map", got |-> <<>>]
      [] OTHER -> [class |-> "other", got |-> <<>>]

RECURSIVE PropUpdateLoopUncaught(_, _)
RECURSIVE PropUpdateLoop(_, _)

\* a loop over the callbacks that the first exception ends
PropUpdateLoopUncaught(cbs, raises) ==
    IF cbs = <<>> THEN <<>>
    ELSE IF Head(cbs) \in raises THEN <<Head(cbs)>>
    ELSE <<Head(cbs)>> \o PropUpdateLoopUncaught(Tail(cbs), raises)

\* "for cb in list(self._prop_update_callbacks)": the callbacks called; the
\* exception of a callback in raises is caught and logged
PropUpdateLoop(cbs, raises) ==
    IF cbs = <<>> THEN <<>>
    ELSE IF Head(cbs) \in raises
         THEN <<Head(cbs)>> \o PropUpdateLoop(Tail(cbs), raises)
         ELSE <<Head(cbs)>> \o PropUpdateLoop(Tail(cbs), raises)

\* add_prop_update_callback
Q10AddCallback(cb) ==
    /\ component = "q10"
    /\ cb \notin Range(q10.callbacks)
    /\ q10' = [q10 EXCEPT !.callbacks = Append(@, cb), !.handles = @ \cup {cb},
                          !.unsubscribed = @ \ {cb}]
    /\ UNCHANGED <<flat, notQ10>>

\* a remove handle that leaves the list as it is
Q10RemoveCallbackKeeps(cb) ==
    /\ component = "q10"
    /\ cb \in q10.handles
    /\ q10.removes < MaxRemoves
    /\ q10' = [q10 EXCEPT !.removes = @ + 1, !.unsubscribed = @ \cup {cb}]
    /\ UNCHANGED <<flat, notQ10>>

\* the remove handle add_prop_update_callback returned is called: the
\* ValueError of a callback that is not in the list is swallowed
Q10RemoveCallback(cb) ==
    /\ component = "q10"
    /\ cb \in q10.handles
    /\ q10.removes < MaxRemoves
    /\ q10' = [q10 EXCEPT !.callbacks = Remove(@, cb), !.removes = @ + 1,
                          !.unsubscribed = @ \cup {cb}]
    /\ UNCHANGED <<flat, notQ10>>

\* a feed that puts the message at the head of the queue
Q10FeedFirst(m) ==
    /\ component = "q10"
    /\ q10.fed < MaxFeeds
    /\ q10' = [q10 EXCEPT !.task = IF @ \in {"none", "done"} THEN "running" ELSE @,
                          !.queue = <<[id |-> q10.fed + 1, msg |-> m]>> \o @,
                          !.fed = @ + 1]
    /\ UNCHANGED <<flat, notQ10>>

\* feed: the consumer task is created when there is none running
Q10Feed(m) ==
    /\ component = "q10"
    /\ q10.fed < MaxFeeds
    /\ q10' = [q10 EXCEPT !.task = IF @ \in {"none", "done"} THEN "running" ELSE @,
                          !.queue = Append(@, [id |-> q10.fed + 1, msg |-> m]),
                          !.fed = @ + 1]
    /\ UNCHANGED <<flat, notQ10>>

\* one turn of the loop of _run
Q10Run(raises) ==
    /\ component = "q10"
    /\ q10.task = "running"
    /\ q10.queue # <<>>
    /\ LET item == Head(q10.queue)
           h == handle_message(item.msg, q10.callbacks)
           got == PropUpdateLoop(h.got, raises)
       IN /\ raises \subseteq Range(h.got)
          /\ q10' = [q10 EXCEPT !.queue = Tail(@),
                                !.nhandled = @ + 1,
                                !.last = [id |-> item.id, msg |-> item.msg,
                                          class |-> h.class,
                                          registered |-> q10.callbacks,
                                          got |-> got,
                                          raised |-> raises],
                                !.seen = [cb \in Q10Callbacks |->
                                             IF cb \in Range(got) THEN Append(@[cb], item.id)
                                             ELSE @[cb]]]
    /\ UNCHANGED <<flat, notQ10>>

\* close: the consumer task is cancelled
Q10Close ==
    /\ component = "q10"
    /\ q10.task = "running"
    /\ q10' = [q10 EXCEPT !.task = "cancelling"]
    /\ UNCHANGED <<flat, notQ10>>

\* the CancelledError reaches the consumer task inside queue.get()
Q10TaskCancelled ==
    /\ component = "q10"
    /\ q10.task = "cancelling"
    /\ q10' = [q10 EXCEPT !.task = "done"]
    /\ UNCHANGED <<flat, notQ10>>

NextQ10 ==
    \/ \E cb \in Q10Callbacks : Q10AddCallback(cb)
    \/ \E cb \in Q10Callbacks : Q10RemoveCallback(cb)
    \/ \E m \in Q10Msgs : Q10Feed(m)
    \/ \E raises \in SUBSET Q10Callbacks : Q10Run(raises)
    \/ Q10Close
    \/ Q10TaskCancelled

(***************************************************************************)
(* LocalChannel.subscribe: the callbacks of self._subscribers and the      *)
(* dispatch of decoded messages by self._data_received                     *)
(***************************************************************************)
LcCallbacks == {"s1", "s2"}

NoDispatch == [ids |-> <<>>, registered |-> <<>>, raised |-> {}]

InitSubVars ==
    lsub = [callbacks |-> <<>>,      \* self._subscribers, in insertion order
            handles |-> {},          \* the callbacks an unsubscribe handle was returned for
            removes |-> 0,           \* calls of unsubscribe handles so far
            unsubscribed |-> {},     \* callbacks whose handle was called since they subscribed
            nrx |-> 0,               \* messages decoded so far
            seen |-> [cb \in LcCallbacks |-> <<>>],  \* per callback: the messages it got
            last |-> NoDispatch]     \* the last call of self._data_received

\* the ids of the messages a chunk of n frames decodes to, in order
ChunkIds(first, n) == [i \in 1..n |-> first + i]

\* what the actions of LocalChannel.subscribe leave alone
notSub == <<component, lcVars, q7Vars, clVars, v1Vars, dvVars, q10Vars, sendVars, kaVars, homeVars, omVars, ccVars>>

\* subscribe: self._subscribers.add_callback(callback)
LcSubscribe(cb) ==
    /\ component = "subscribe"
    /\ cb \notin Range(lsub.callbacks)
    /\ lsub' = [lsub EXCEPT !.callbacks = Append(@, cb), !.handles = @ \cup {cb},
                            !.unsubscribed = @ \ {cb}]
    /\ UNCHANGED notSub

\* the handle subscribe returned is called
LcUnsubscribe(cb) ==
    /\ component = "subscribe"
    /\ cb \in lsub.handles
    /\ lsub.removes < MaxRemoves
    /\ lsub' = [lsub EXCEPT !.callbacks = Remove(@, cb), !.removes = @ + 1,
                            !.unsubscribed = @ \cup {cb}]
    /\ UNCHANGED notSub

\* self._data_received(data): the decoder yields n messages, each is handed
\* in turn to every subscriber; the exception of a callback is caught
LcDataReceived(n, raises) ==
    /\ component = "subscribe"
    /\ lsub.nrx + n <= MaxFrames
    /\ raises \subseteq Range(lsub.callbacks)
    /\ LET ids == ChunkIds(lsub.nrx, n)
       IN lsub' = [lsub EXCEPT
                      !.nrx = @ + n,
                      !.seen = [cb \in LcCallbacks |->
                                   IF cb \in Range(CallbackListCall(lsub.callbacks, <<>>))
                                   THEN @[cb] \o ids ELSE @[cb]],
                      !.last = [ids |-> ids, registered |-> lsub.callbacks,
                                raised |-> raises]]
    /\ UNCHANGED notSub

NextSubscribe ==
    \/ \E cb \in LcCallbacks : LcSubscribe(cb)
    \/ \E cb \in LcCallbacks : LcUnsubscribe(cb)
    \/ \E n \in 1..2, raises \in SUBSET LcCallbacks : LcDataReceived(n, raises)

(***************************************************************************)
(* B01 Q10 send helpers: send_b01_dp_command, send_command and             *)
(* send_decoded_command over an MqttChannel                                *)
(***************************************************************************)
\* B01_Q10_DP.STATUS and B01_Q10_DP.BATTERY
Q10Dps == {121, 122}

\* what mqtt_channel.publish can do
PublishResults == {"ok", "TimeoutError", "RoborockException", "Exception"}

\* an inbound message: decodes says whether decode_rpc_response returns, dps
\* are the keys of the map it returns
Q10Responses ==
    [decodes : {TRUE}, dps : SUBSET Q10Dps] \cup [decodes : {FALSE}, dps : {{}}]

\* expected_dps: None, or an iterable of DPs
NoExpected == [given |-> FALSE, dps |-> {}]
ExpectedDps == {NoExpected} \cup [given : {TRUE}, dps : SUBSET Q10Dps]

NoResponse == [at |-> 0, dps |-> {}]

InitSendVars ==
    q10s = [fn |-> "none",            \* the function called
            pc |-> "idle",            \* idle, publish, wait, done
            expected |-> NoExpected,  \* expected_dps of send_decoded_command
            future |-> "none",        \* none, pending, set, cancelled
            result |-> NoResponse,    \* the result of the future
            subscribed |-> FALSE,     \* find_response is subscribed to the channel
            waiters |-> 0,            \* calls of mqtt_channel.subscribe in this call
            arrived |-> <<>>,         \* messages the channel dispatched in this call
            outcome |-> "none",       \* returned, or the exception raised
            published |-> "none",     \* what mqtt_channel.publish did in this call
            waited |-> FALSE,         \* wait_for found the future pending
            health |-> [success |-> 0, timeout |-> 0],  \* calls of the health manager
            sends |-> 0]              \* calls made so far

\* a find_response that does not filter on the expected DPs
q10_find_response_any(expected, response) == response.decodes

\* find_response of send_decoded_command: the response sets the future
q10_find_response(expected, response) ==
    /\ response.decodes
    /\ ~(expected.given /\ expected.dps # {} /\ response.dps \cap expected.dps = {})

\* a call starts
NewSend(fn, expected) ==
    [q10s EXCEPT !.fn = fn, !.pc = "publish", !.expected = expected,
                 !.future = "none", !.result = NoResponse, !.subscribed = FALSE,
                 !.waiters = 0, !.arrived = <<>>, !.outcome = "none",
                 !.published = "none", !.waited = FALSE, !.sends = @ + 1]

\* send_b01_dp_command up to "await mqtt_channel.publish(msg)"
Q10SendDp ==
    /\ component = "q10send"
    /\ q10s.pc \in {"idle", "done"}
    /\ q10s.sends < MaxSends
    /\ q10s' = NewSend("send_b01_dp_command", NoExpected)
    /\ UNCHANGED notSend

\* send_command up to "await mqtt_channel.publish(roborock_message)"
Q10SendCommand ==
    /\ component = "q10send"
    /\ q10s.pc \in {"idle", "done"}
    /\ q10s.sends < MaxSends
    /\ q10s' = NewSend("send_command", NoExpected)
    /\ UNCHANGED notSend

\* send_decoded_command up to "await mqtt_channel.publish(roborock_message)":
\* the future is created and find_response subscribed
Q10SendDecoded(expected) ==
    /\ component = "q10send"
    /\ q10s.pc \in {"idle", "done"}
    /\ q10s.sends < MaxSends
    /\ q10s' = [NewSend("send_decoded_command", expected) EXCEPT
                   !.future = "pending", !.subscribed = TRUE, !.waiters = 1]
    /\ UNCHANGED notSend

\* the end of send_decoded_command: the finally clause unsubscribes
SendDecodedEnds(s, how) ==
    [s EXCEPT !.pc = "done", !.outcome = how, !.subscribed = FALSE]

\* mqtt_channel.publish returns or raises
Q10PublishReturns(result) ==
    /\ component = "q10send"
    /\ q10s.pc = "publish"
    /\ LET s == [q10s EXCEPT !.published = result]
       IN q10s' =
            CASE s.fn = "send_b01_dp_command" ->
                     [s EXCEPT !.pc = "done",
                               !.outcome = "returned",
                               !.health.success = IF result = "ok" THEN @ + 1 ELSE @,
                               !.health.timeout = IF result = "TimeoutError" THEN @ + 1 ELSE @]
              [] s.fn = "send_command" ->
                     [s EXCEPT !.pc = "done",
                               !.outcome = IF result = "ok" THEN "returned" ELSE result]
              [] OTHER ->
                     CASE result = "ok" /\ s.future = "set" -> SendDecodedEnds(s, "returned")
                       [] result = "ok" -> [s EXCEPT !.pc = "wait", !.waited = TRUE]
                       [] result = "TimeoutError" -> SendDecodedEnds(s, "RoborockException")
                       [] OTHER -> SendDecodedEnds(s, result)
    /\ UNCHANGED notSend

\* the channel dispatches an inbound message to its subscribers
Q10Inbound(response) ==
    /\ component = "q10send"
    /\ q10s.subscribed
    /\ Len(q10s.arrived) < MaxInbound
    /\ LET at == Len(q10s.arrived) + 1
           takes == q10_find_response(q10s.expected, response) /\ q10s.future = "pending"
       IN q10s' = [q10s EXCEPT
                      !.arrived = Append(@, response),
                      !.future = IF takes THEN "set" ELSE @,
                      !.result = IF takes THEN [at |-> at, dps |-> response.dps] ELSE @]
    /\ UNCHANGED notSend

\* asyncio.wait_for returns the result of the future
Q10WaitReturns ==
    /\ component = "q10send"
    /\ q10s.pc = "wait"
    /\ q10s.future = "set"
    /\ q10s' = SendDecodedEnds(q10s, "returned")
    /\ UNCHANGED notSend

\* _TIMEOUT expires: wait_for cancels the future and raises TimeoutError,
\* which send_decoded_command turns into a RoborockException
Q10WaitTimeout ==
    /\ component = "q10send"
    /\ q10s.pc = "wait"
    /\ q10s.future = "pending"
    /\ q10s' = [SendDecodedEnds(q10s, "RoborockException") EXCEPT !.future = "cancelled"]
    /\ UNCHANGED notSend

\* the task awaiting send_decoded_command is cancelled while it awaits
\* publish or the future: wait_for cancels the future it waits for, the
\* finally clause unsubscribes and CancelledError propagates
Q10SendCancelled ==
    /\ component = "q10send"
    /\ q10s.fn = "send_decoded_command"
    /\ q10s.pc \in {"publish", "wait"}
    /\ q10s' = [SendDecodedEnds(q10s, "cancelled") EXCEPT
                   !.future = IF q10s.pc = "wait" /\ @ = "pending" THEN "cancelled" ELSE @]
    /\ UNCHANGED notSend

NextSend ==
    \/ Q10SendDp
    \/ Q10SendCommand
    \/ \E expected \in ExpectedDps : Q10SendDecoded(expected)
    \/ \E result \in PublishResults : Q10PublishReturns(result)
    \/ \E response \in Q10Responses : Q10Inbound(response)
    \/ Q10WaitReturns
    \/ Q10WaitTimeout

(***************************************************************************)
(* RoborockLocalClientV1: async_connect, keep_alive_func and ping          *)
(***************************************************************************)
\* what the keepalive actions leave alone
notKa == <<component, lcVars, q7Vars, clVars, v1Vars, dvVars, q10Vars, sendVars, subVars, homeVars, omVars, ccVars>>

\* the keep_alive_func coroutines that can be alive at once: async_connect
\* starts one after each handshake
KaTasks == 1..MaxKaConnects

\* outcomes of validate_connection at the start of _send_message
KaValidations == {"raised", "returned"}

InitKaVars ==
    ka = [transport |-> "none",     \* self.transport: none, open, or closed
          conn |-> "idle",          \* async_connect: idle, connecting, hello
          task |-> [i \in KaTasks |-> "idle"],  \* keep_alive_func: idle, ping, wait
          latest |-> FALSE,         \* self.keep_alive_task is a timer still pending
          orphans |-> 0,            \* pending timers self.keep_alive_task no longer names
          connects |-> 0,
          pings |-> 0,              \* PING requests written
          replied |-> 0,
          missed |-> 0,             \* PING requests whose wait ended without a reply
          last |-> "none"]          \* how the last ping() ended

\* RoborockLocalClientV1.is_connected
ka_is_connected(k) == k.transport = "open"

\* _sync_disconnect: close the transport, cancel self.keep_alive_task
ka_sync_disconnect(k) ==
    [k EXCEPT !.transport = IF @ = "open" THEN "closed" ELSE @,
              !.latest = FALSE]

\* the end of keep_alive_func: loop.call_later(10, ...) replaces
\* self.keep_alive_task; a handle it replaces stays scheduled
ka_call_later(k) ==
    [k EXCEPT !.orphans = IF k.latest THEN @ + 1 ELSE @,
              !.latest = TRUE]

KaFreeTask(k) == CHOOSE i \in KaTasks : k.task[i] = "idle"

\* async_connect on a client that is not connected, up to the await of
\* create_connection
KaAsyncConnect ==
    /\ component = "keepalive"
    /\ ka.conn = "idle"
    /\ ~ka_is_connected(ka)
    /\ ka.connects < MaxKaConnects
    /\ ka' = [ka_sync_disconnect(ka) EXCEPT !.conn = "connecting", !.connects = @ + 1]
    /\ UNCHANGED notKa

\* create_connection returns or fails; after a success async_connect
\* awaits hello()
KaConnectionMade(ok) ==
    /\ component = "keepalive"
    /\ ka.conn = "connecting"
    /\ ka' = IF ok
             THEN [ka EXCEPT !.transport = "open", !.conn = "hello"]
             ELSE [ka EXCEPT !.conn = "idle"]
    /\ UNCHANGED notKa

\* hello() returns, and async_connect awaits keep_alive_func(), or raises
KaHelloDone(ok) ==
    /\ component = "keepalive"
    /\ ka.conn = "hello"
    /\ ka' = IF ok
             THEN [ka EXCEPT !.conn = "idle", !.task[KaFreeTask(ka)] = "ping"]
             ELSE [ka EXCEPT !.conn = "idle"]
    /\ UNCHANGED notKa

\* keep_alive_func -> ping -> _send_message once validate_connection is over:
\* a RoborockException is swallowed and the next call scheduled, else the
\* PING is written and its response awaited
KaPing(i, validated) ==
    /\ component = "keepalive"
    /\ ka.task[i] = "ping"
    /\ ka.pings < MaxPings
    /\ ka' = IF validated = "raised" \/ ka.transport = "none"
             THEN [ka_call_later(ka) EXCEPT !.task[i] = "idle", !.last = "error"]
             ELSE [ka EXCEPT !.task[i] = "wait", !.pings = @ + 1]
    /\ UNCHANGED notKa

\* the PING_RESPONSE arrives: ping returns, keep_alive_func schedules the
\* next call
KaPingReply(i) ==
    /\ component = "keepalive"
    /\ ka.task[i] = "wait"
    /\ ka_is_connected(ka)
    /\ ka' = [ka_call_later(ka) EXCEPT !.task[i] = "idle", !.replied = @ + 1,
                                       !.last = "reply"]
    /\ UNCHANGED notKa

\* no PING_RESPONSE arrives in time: the RoborockException of ping is
\* swallowed, keep_alive_func schedules the next call
KaPingTimeout(i) ==
    /\ component = "keepalive"
    /\ ka.task[i] = "wait"
    /\ ka' = [ka_call_later(ka) EXCEPT !.task[i] = "idle", !.missed = @ + 1,
                                       !.last = "missed"]
    /\ UNCHANGED notKa

\* ten seconds are over for a scheduled call: create_task(keep_alive_func())
KaTimerFires(orphan) ==
    /\ component = "keepalive"
    /\ IF orphan THEN ka.orphans > 0 ELSE ka.latest
    /\ ka' = [ka EXCEPT !.orphans = IF orphan THEN @ - 1 ELSE @,
                        !.latest = IF orphan THEN @ ELSE FALSE,
                        !.task[KaFreeTask(ka)] = "ping"]
    /\ UNCHANGED notKa

\* async_disconnect, or _connection_lost: _sync_disconnect
KaDisconnect ==
    /\ component = "keepalive"
    /\ ka_is_connected(ka)
    /\ ka.conn # "connecting"
    /\ ka' = ka_sync_disconnect(ka)
    /\ UNCHANGED notKa

NextKeepAlive ==
    \/ KaAsyncConnect
    \/ \E ok \in BOOLEAN : KaConnectionMade(ok)
    \/ \E ok \in BOOLEAN : KaHelloDone(ok)
    \/ \E i \in KaTasks, validated \in KaValidations : KaPing(i, validated)
    \/ \E i \in KaTasks : KaPingReply(i)
    \/ \E i \in KaTasks : KaPingTimeout(i)
    \/ \E orphan \in BOOLEAN : KaTimerFires(orphan)
    \/ KaDisconnect

(***************************************************************************)
(* HomeTrait (roborock/devices/traits/v1/home.py)                          *)
(***************************************************************************)
\* what the actions of a HomeTrait leave alone
notHome == <<component, lcVars, q7Vars, clVars, v1Vars, dvVars, q10Vars, sendVars, subVars, kaVars, omVars, ccVars>>

\* map flags of the maps of a device
MapFlags == {0, 1, 123}
\* StatusTrait.current_map when the status names no map
NoFlag == -1
\* RoborockStateCode values of StatusTrait.state
HomeStates == {"cleaning", "charging"}

\* a dict attribute that is None
NoDict == [set |-> FALSE, keys |-> {}]
\* a dict with the given keys
DictOf(keys) == [set |-> TRUE, keys |-> keys]

\* the sequences of distinct map flags of length 1..MaxMaps
MapLists ==
    {q \in UNION {[1..n -> MapFlags] : n \in 1..MaxMaps} :
        \A i, j \in DOMAIN q : i # j => q[i] # q[j]}

\* HomeTrait.__init__ with an empty cache
InitHomeVars ==
    home = [cache_info |-> {}, cache_content |-> {}, parses |-> TRUE,
            state |-> "charging", map_info |-> <<0>>, current_map |-> 0,
            info |-> NoDict, content |-> NoDict,
            pc |-> "idle", sorted |-> <<>>, idx |-> 0, switched |-> FALSE,
            built |-> {}, sent |-> <<>>, loads |-> <<>>, result |-> "none"]

\* a HomeTrait over any cache, device state and list of maps
InitHomeInputs ==
    home \in [cache_info : {{}, {0}}, cache_content : {{}, {0}}, parses : BOOLEAN,
              state : HomeStates, map_info : MapLists, current_map : MapFlags \cup {NoFlag},
              info : {NoDict}, content : {NoDict},
              pc : {"idle"}, sorted : {<<>>}, idx : {0}, switched : {FALSE},
              built : {{}}, sent : {<<>>}, loads : {<<>>}, result : {"none"}]

\* the map list left in the order the device reports it
sorted_map_infos_unsorted(map_info, current_map) == map_info

\* _build_home_map_info: sorted(map_info, key=lambda mi: mi.map_flag ==
\* current_map), a stable sort that puts the current map last
sorted_map_infos(map_info, current_map) ==
    SelectSeq(map_info, LAMBDA f : f # current_map)
        \o SelectSeq(map_info, LAMBDA f : f = current_map)

\* a discover_home that does not look at the state of the device
HomeIsBusyNever(state) == FALSE

\* discover_home: self._status_trait.state == RoborockStateCode.cleaning
HomeIsBusy(state) == state = "cleaning"

\* discover_home up to its return, its raise of RoborockDeviceBusy or the
\* await of maps_trait.refresh()
HomeDiscover ==
    /\ component = "home"
    /\ home.pc = "idle"
    /\ LET populated == home.cache_info # {} /\ home.cache_content # {}
           loaded == IF populated
                     THEN [home EXCEPT !.info = DictOf(home.cache_info),
                                       !.content = IF home.parses
                                                   THEN DictOf(home.cache_content)
                                                   ELSE DictOf({})]
                     ELSE home
       IN home' = IF populated /\ home.parses
                  THEN [loaded EXCEPT !.pc = "done", !.result = "cached"]
                  ELSE IF HomeIsBusy(home.state)
                  THEN [loaded EXCEPT !.pc = "done", !.result = "busy"]
                  ELSE [loaded EXCEPT !.pc = "maps",
                                      !.sent = Append(@, "get_multi_maps_list")]
    /\ UNCHANGED notHome

\* maps_trait.refresh() returns or raises; without current map info
\* discover_home raises, else _build_home_map_info sorts the maps
HomeMapsRefreshed(ok) ==
    /\ component = "home"
    /\ home.pc = "maps"
    /\ home' = IF ~ok \/ home.current_map \notin Range(home.map_info)
               THEN [home EXCEPT !.pc = "done", !.result = "error"]
               ELSE [home EXCEPT !.pc = "loop", !.idx = 1,
                                 !.sorted = sorted_map_infos(home.map_info, home.current_map)]
    /\ UNCHANGED notHome

\* the loop of _build_home_map_info with more than one map:
\* maps_trait.set_current_map(map_flag), then the sleep
HomeSetCurrentMap(ok) ==
    /\ component = "home"
    /\ home.pc = "loop"
    /\ home.idx <= Len(home.sorted)
    /\ Len(home.sorted) > 1
    /\ ~home.switched
    /\ home' = IF ok
               THEN [home EXCEPT !.switched = TRUE,
                                 !.sent = Append(@, "load_multi_map"),
                                 !.loads = Append(@, home.sorted[home.idx])]
               ELSE [home EXCEPT !.pc = "done", !.result = "error",
                                 !.sent = Append(@, "load_multi_map")]
    /\ UNCHANGED notHome

\* the loop of _build_home_map_info: _refresh_map_content and
\* _refresh_map_info of the map that is loaded
HomeRefreshMap(ok) ==
    /\ component = "home"
    /\ home.pc = "loop"
    /\ home.idx <= Len(home.sorted)
    /\ Len(home.sorted) > 1 => home.switched
    /\ home' = IF ok
               THEN [home EXCEPT !.switched = FALSE, !.idx = @ + 1,
                                 !.sent = @ \o <<"get_map_v1", "get_room_mapping">>,
                                 !.built = @ \cup {home.sorted[home.idx]}]
               ELSE [home EXCEPT !.pc = "done", !.result = "error",
                                 !.sent = Append(@, "get_map_v1")]
    /\ UNCHANGED notHome

\* _update_home_cache: the cache and the attributes take the discovered maps
HomeUpdateCache ==
    /\ component = "home"
    /\ home.pc = "loop"
    /\ home.idx > Len(home.sorted)
    /\ home' = [home EXCEPT !.pc = "done", !.result = "ok",
                            !.cache_info = home.built, !.cache_content = home.built,
                            !.info = DictOf(home.built), !.content = DictOf(home.built)]
    /\ UNCHANGED notHome

NextHome ==
    \/ HomeDiscover
    \/ \E ok \in BOOLEAN : HomeMapsRefreshed(ok)
    \/ \E ok \in BOOLEAN : HomeSetCurrentMap(ok)
    \/ \E ok \in BOOLEAN : HomeRefreshMap(ok)
    \/ HomeUpdateCache

(***************************************************************************)
(* RoborockDevice._on_message (roborock/devices/device.py)                 *)
(***************************************************************************)
\* what the actions of _on_message leave alone
notOm == <<component, lcVars, q7Vars, clVars, v1Vars, dvVars, q10Vars, sendVars, subVars, kaVars, homeVars, ccVars>>

GENERAL_REQUEST == "GENERAL_REQUEST"
GENERAL_RESPONSE == "GENERAL_RESPONSE"
OmProtocols == {RPC_RESPONSE, GENERAL_RESPONSE, GENERAL_REQUEST, HELLO_RESPONSE}

\* keys of a dps map: the RPC response, ERROR_CODE, STATE, BATTERY,
\* FAN_POWER, CHARGE_STATUS, a number that is no RoborockDataProtocol, and a
\* key that is no number
OmKeys == {"102", "120", "121", "122", "123", "133", "999", "x"}
\* data point values: 8 is a RoborockStateCode and a RoborockErrorCode, 300
\* is neither
OmValues == {8, 300}
StateCodes == {8}
ErrorCodes == {8}

\* the dps maps, as the items() of a dict: distinct keys in insertion order
OmEntries ==
    {q \in UNION {[1..n -> [key : OmKeys, value : OmValues]] : n \in 0..MaxOmDps} :
        \A i, j \in DOMAIN q : i # j => q[i].key # q[j].key}

\* message.payload: empty, bytes that are not UTF-8, text that is not JSON,
\* JSON that is not an object, or a JSON object whose "dps" is absent, a
\* falsy value that is no dict, a non-empty value that is no dict, or a dict
OmPayloads ==
    [kind : {"empty", "not_utf8", "not_json", "json_other"}, dps : {"absent"},
     entries : {<<>>}]
    \cup [kind : {"object"}, dps : {"absent", "falsy", "other"}, entries : {<<>>}]
    \cup [kind : {"object"}, dps : {"dict"}, entries : OmEntries]

OmMsgs == [protocol : OmProtocols, payload : OmPayloads]

\* what is kept of a handled message: whether it is a JSON object with a
\* non-empty dps map on a protocol that carries data points, and whether it
\* holds a data point other than the "102" key and the unknown keys
NoOmMsg == [wellformed |-> FALSE, known |-> FALSE]

OmWellFormed(message) ==
    /\ message.protocol \in {RPC_RESPONSE, GENERAL_RESPONSE}
    /\ message.payload.kind = "object"
    /\ message.payload.dps = "dict"
    /\ message.payload.entries # <<>>

OmSummary(message) ==
    [wellformed |-> OmWellFormed(message),
     known |-> \E i \in DOMAIN message.payload.entries :
                   message.payload.entries[i].key \notin {"102", "999", "x"}]

\* a device whose status trait has no state and no battery level yet
InitOmVars ==
    om = [v1 |-> TRUE, error_code |-> 0, state |-> 0, battery |-> 0,
          charge_status |-> 0, notified |-> 0,
          raised |-> "none", last |-> NoOmMsg, n |-> 0]

InitOmInputs ==
    om \in [v1 : BOOLEAN, error_code : {0}, state : {0}, battery : {0},
            charge_status : {0}, notified : {0},
            raised : {"none"}, last : {NoOmMsg}, n : {0}]

\* _handle_protocol_update for one data point, with the ValueError handler
\* of the loop of _on_message around it
handle_protocol_update(o, key, value) ==
    IF key = "120"
    THEN IF value \in ErrorCodes
         THEN [o EXCEPT !.error_code = value, !.notified = @ + 1]
         ELSE o
    ELSE IF key = "121"
    THEN IF value \in StateCodes
         THEN [o EXCEPT !.state = value, !.notified = @ + 1]
         ELSE o
    ELSE IF key = "122"
    THEN [o EXCEPT !.battery = value, !.notified = @ + 1]
    ELSE IF key = "133"
    THEN [o EXCEPT !.charge_status = value, !.notified = @ + 1]
    ELSE o

RECURSIVE on_message_loop(_, _)
\* _on_message: the loop over dps.items()
on_message_loop(o, entries) ==
    IF entries = <<>>
    THEN o
    ELSE LET e == Head(entries)
         IN on_message_loop(IF e.key \in {"102", "999", "x"}
                            THEN o
                            ELSE handle_protocol_update(o, e.key, e.value),
                            Tail(entries))

\* RoborockDevice._on_message
on_message(o, message) ==
    IF ~o.v1 THEN o
    ELSE IF message.protocol \notin {RPC_RESPONSE, GENERAL_RESPONSE} THEN o
    ELSE IF message.payload.kind = "empty" THEN o
    ELSE IF message.payload.kind \in {"not_utf8", "not_json"} THEN o
    ELSE IF message.payload.kind = "json_other"
    THEN [o EXCEPT !.raised = "AttributeError"]
    ELSE IF message.payload.dps \in {"absent", "falsy"} THEN o
    ELSE IF message.payload.dps = "other"
    THEN [o EXCEPT !.raised = "AttributeError"]
    ELSE on_message_loop(o, message.payload.entries)

\* the channel delivers a message to the device
OnMessage(message) ==
    /\ component = "onmessage"
    /\ om.n < MaxOmMsgs
    /\ om' = [on_message([om EXCEPT !.raised = "none"], message)
                  EXCEPT !.last = OmSummary(message), !.n = om.n + 1]
    /\ UNCHANGED notOm

NextOnMessage == \E message \in OmMsgs : OnMessage(message)

\* the objects added last, as constructed
(***************************************************************************)
(* Concurrent LocalChannel.connect calls (roborock/devices/local_channel.py)*)
(***************************************************************************)
notCc == <<component, lcVars, q7Vars, clVars, v1Vars, dvVars, q10Vars, sendVars, subVars, kaVars, homeVars, omVars>>

CcTransports == 1..MaxCcConns

\* LocalChannel.__init__, with the bookkeeping of the event loop: the
\* transports that are open, and the closed ones whose connection_lost
\* callback has not run yet
InitCcVars ==
    cc = [transport |-> None,
          is_connected |-> FALSE,
          pc |-> [c \in Callers |-> "idle"],   \* idle, connecting, hello, done
          result |-> [c \in Callers |-> "none"],
          open |-> {},
          closing |-> {},
          opened |-> 0]

\* LocalChannel.close
cc_close(o) ==
    [o EXCEPT !.open = IF o.transport # None THEN @ \ {o.transport} ELSE @,
              !.closing = IF o.transport # None THEN @ \cup {o.transport} ELSE @,
              !.transport = None,
              !.is_connected = FALSE]

\* connect() up to the await of create_connection
CcConnect(c) ==
    /\ component = "connects"
    /\ cc.pc[c] \in {"idle", "done"}
    /\ cc' = IF cc.is_connected
             THEN [cc EXCEPT !.pc[c] = "done", !.result[c] = "already"]
             ELSE [cc EXCEPT !.pc[c] = "connecting", !.result[c] = "none"]
    /\ UNCHANGED notCc

\* create_connection returns a new transport or raises OSError
CcConnectionMade(c, ok) ==
    /\ component = "connects"
    /\ cc.pc[c] = "connecting"
    /\ IF ok
       THEN /\ cc.opened < MaxCcConns
            /\ cc' = [cc EXCEPT !.transport = cc.opened + 1,
                                !.is_connected = TRUE,
                                !.open = @ \cup {cc.opened + 1},
                                !.opened = @ + 1,
                                !.pc[c] = "hello"]
       ELSE cc' = [cc EXCEPT !.pc[c] = "done", !.result[c] = "conn_error"]
    /\ UNCHANGED notCc

\* _hello returns or raises; on failure connect() calls close()
CcHelloDone(c, ok) ==
    /\ component = "connects"
    /\ cc.pc[c] = "hello"
    /\ cc' = IF ok
             THEN [cc EXCEPT !.pc[c] = "done", !.result[c] = "connected"]
             ELSE [cc_close(cc) EXCEPT !.pc[c] = "done", !.result[c] = "hello_error"]
    /\ UNCHANGED notCc

\* the owner calls close()
CcClose ==
    /\ component = "connects"
    /\ cc.transport # None
    /\ cc' = cc_close(cc)
    /\ UNCHANGED notCc

\* the event loop calls _connection_lost for transport t: the peer closed
\* it, or close() was called on it earlier
CcConnectionLost(t) ==
    /\ component = "connects"
    /\ t \in cc.open \cup cc.closing
    /\ cc' = [cc EXCEPT !.open = @ \ {t},
                        !.closing = @ \ {t},
                        !.transport = None,
                        !.is_connected = FALSE]
    /\ UNCHANGED notCc

NextConnects ==
    \/ \E c \in Callers : CcConnect(c)
    \/ \E c \in Callers, ok \in BOOLEAN : CcConnectionMade(c, ok)
    \/ \E c \in Callers, ok \in BOOLEAN : CcHelloDone(c, ok)
    \/ CcClose
    \/ \E t \in CcTransports : CcConnectionLost(t)

InitExtVars == InitHomeVars /\ InitOmVars /\ InitCcVars

(***************************************************************************)
(* Specifications                                                          *)
(***************************************************************************)
\* the objects a behaviour is not about stay as constructed
InitOtherVars ==
    /\ device = NewDevice(FALSE) /\ InitQ10Vars /\ InitFlatVars /\ InitSendVars /\ InitSubVars
    /\ InitKaVars /\ InitExtVars

InitAllVars == InitChannelVars /\ InitQ7Vars /\ InitClientVars /\ InitV1Vars /\ v1.cache = NoHost /\ v1.age = 0 /\ InitOtherVars

InitLocal == component = "local" /\ InitAllVars

InitReconnect == component = "reconnect" /\ InitAllVars

InitQ7 == component = "q7" /\ InitAllVars

InitClient == component = "client" /\ InitAllVars

InitV1 == component = "v1" /\ InitChannelVars /\ InitQ7Vars /\ InitClientVars /\ InitV1Vars /\ InitOtherVars

InitV1Sub ==
    component = "v1sub" /\ InitChannelVars /\ InitQ7Vars /\ InitClientVars /\ InitV1Vars /\ InitOtherVars

InitRest == InitChannelVars /\ InitQ7Vars /\ InitClientVars /\ InitV1Vars /\ v1.cache = NoHost /\ v1.age = 0

InitDevice ==
    component = "device" /\ InitRest /\ InitDeviceVars /\ InitQ10Vars /\ InitFlatVars /\ InitSendVars
    /\ InitSubVars /\ InitKaVars /\ InitExtVars

InitBackoff ==
    component = "backoff" /\ InitRest /\ InitDeviceVars /\ InitQ10Vars /\ InitFlatVars /\ InitSendVars
    /\ InitSubVars /\ InitKaVars /\ InitExtVars

InitQ10 == component = "q10" /\ InitAllVars

InitSend == component = "q10send" /\ InitAllVars

InitCancel == (component = "cancel" /\ InitAllVars) \/ InitQ7 \/ InitSend

InitSubscribe == component = "subscribe" /\ InitAllVars

InitKeepAlive == component = "keepalive" /\ InitAllVars

\* every object but the later ones as constructed
InitBase ==
    /\ InitRest /\ device = NewDevice(FALSE) /\ InitQ10Vars /\ InitFlatVars /\ InitSendVars
    /\ InitSubVars /\ InitKaVars

InitHome == component = "home" /\ InitBase /\ InitHomeInputs /\ InitOmVars /\ InitCcVars

InitOnMessage == component = "onmessage" /\ InitBase /\ InitHomeVars /\ InitOmInputs /\ InitCcVars

InitConnects == component = "connects" /\ InitAllVars

InitFlatten ==
    /\ component = "flatten"
    /\ InitRest /\ device = NewDevice(FALSE) /\ InitQ10Vars /\ InitSendVars /\ InitSubVars
    /\ InitKaVars /\ InitExtVars
    /\ flat \in [decoded : DecodedMaps, out : {EmptyFlat}, done : {FALSE}]

\* the subscribers of a LocalChannel and of a B01 Q10 router
InitDispatch == InitQ10 \/ InitSubscribe

NextDispatch == NextQ10 \/ NextSubscribe

SpecDispatch == InitDispatch /\ [][NextDispatch]_vars

\* a V1Channel that is subscribed to and released
SpecV1Sub == InitV1Sub /\ [][NextV1Sub]_vars

InitAlready == InitDevice \/ InitV1Sub

NextAlready == NextDevice \/ NextV1Sub

\* a RoborockDevice, or a V1Channel, that is connected to more than once
SpecAlready == InitAlready /\ [][NextAlready]_vars

\* the B01 Q10 send helpers
SpecSend == InitSend /\ [][NextSend]_vars

\* a LocalChannel with two callers
SpecLocal == InitLocal /\ [][NextLocal]_vars

\* a LocalChannel with one caller that reconnects
SpecReconnect == InitReconnect /\ [][NextLocal]_vars

\* the Q7 send_decoded_command
SpecQ7 == InitQ7 /\ [][NextQ7]_vars

\* the requests of a LocalChannel and of the Q7 send_decoded_command
InitRpc == InitLocal \/ InitQ7

NextRpc == NextLocal \/ NextQ7

SpecRpc == InitRpc /\ [][NextRpc]_vars

\* the three request helpers that install a temporary subscriber, with
\* cancellation of the calling task
NextCancel ==
    \/ NextLocal
    \/ NextQ7
    \/ NextSend
    \/ \E s \in Callers : SendCancelled(s)
    \/ \E c \in Q7Calls : Q7Cancelled(c)
    \/ Q10SendCancelled

SpecCancel == InitCancel /\ [][NextCancel]_vars

\* a LocalChannel with two callers of connect()
SpecConnects == InitConnects /\ [][NextConnects]_vars

\* a V1Channel
SpecV1 == InitV1 /\ [][NextV1]_vars

\* a V1Channel, or the RoborockLocalClientV1 behind its local leg
InitCloudOnly == InitV1 \/ InitClient

NextCloudOnly == NextV1 \/ NextClient

SpecCloudOnly == InitCloudOnly /\ [][NextCloudOnly]_vars

\* a RoborockDevice with ready callbacks and callers
SpecDevice == InitDevice /\ [][NextDevice]_vars

\* a RoborockDevice whose connect loop keeps failing
SpecBackoff == InitBackoff /\ [][NextConnectLoop]_vars

\* the connect loop runs as a task of the event loop: a sleep that is over
\* and a cancellation that was requested are eventually acted on
DeviceFairness == WF_vars(WakeUp) /\ WF_vars(TaskCancelled)

SpecDeviceLive == SpecDevice /\ DeviceFairness

\* the reconnect loop of a V1Channel runs as a task of the event loop
V1Fairness ==
    WF_vars(\E use_cache \in BOOLEAN, rpc \in Hosts \cup {"fail"}, connected \in BOOLEAN :
                V1LocalConnect(use_cache, rpc, connected))

SpecV1Live == SpecV1 /\ V1Fairness

\* a B01 Q10 router
SpecQ10 == InitQ10 /\ [][NextQ10]_vars

\* the keepalive of a RoborockLocalClientV1
SpecKeepAlive == InitKeepAlive /\ [][NextKeepAlive]_vars

\* calls of HomeTrait.discover_home
SpecHome == InitHome /\ [][NextHome]_vars

\* messages delivered to RoborockDevice._on_message
SpecOnMessage == InitOnMessage /\ [][NextOnMessage]_vars

\* calls of _flatten_q10_dps
SpecFlatten == InitFlatten /\ [][NextFlatten]_vars

Init == InitLocal \/ InitReconnect \/ InitQ7 \/ InitClient \/ InitV1 \/ InitDevice
            \/ InitBackoff \/ InitQ10 \/ InitFlatten \/ InitSend \/ InitSubscribe
            \/ InitV1Sub \/ InitKeepAlive \/ InitHome
            \/ InitOnMessage \/ InitCancel \/ InitConnects

Next ==
    \/ NextLocal \/ NextQ7 \/ NextClient \/ NextV1 \/ NextDevice \/ NextQ10 \/ NextFlatten
    \/ NextSend \/ NextSubscribe \/ V1SubscribeAgain \/ NextKeepAlive
    \/ NextHome \/ NextOnMessage \/ NextCancel \/ NextConnects

Spec == Init /\ [][Next]_vars

(***************************************************************************)
(* Properties of LocalChannel                                              *)
(***************************************************************************)
HandshakeDone ==
    /\ component \in LocalComponents
    /\ ctask.pc = "idle"
    /\ ctask.tried # <<>>
    /\ ctask.tried[Len(ctask.tried)].result = "ok"

\* C1 for LocalChannel: the future of a send_message call only ever holds a
\* response whose seq is the call's request id and whose protocol is the
\* response protocol the call expects.
C1_Local ==
    \A s \in Slots :
        req[s].future = "done" =>
            /\ req[s].result.seq = req[s].request_id
            /\ req[s].result.protocol = req[s].response_protocol

\* C1 for Q7: only responses whose msgId is the msg_id of the call set its
\* finished event or update its result.
C1_Q7 ==
    \A c \in Q7Calls :
        /\ q7req[c].from \subseteq {q7req[c].msg_id}
        /\ q7req[c].finished => q7req[c].from = {q7req[c].msg_id}
        /\ q7req[c].result # EmptyDict => q7req[c].finished

\* C1: whatever requests are outstanding and in whatever order responses
\* arrive, a request is completed only by a response that carries its own
\* request id (for LocalChannel: and the expected response protocol).
C1_OwnResponseOnly == C1_Local /\ C1_Q7

C1_Witness ==
    /\ component = "local"
    /\ req["a"].pc = "waiting" /\ req["b"].pc = "waiting"
    /\ req["a"].request_id = 1 /\ req["b"].request_id = 2
    /\ subscribers = <<HelloSlot, "a", "b">>
    /\ req["b"].future = "done" /\ req["a"].future = "pending"

\* C2: every send_message call has at most one terminal outcome, a finished
\* call has exactly one, and the future of a call takes a result at most once
\* however many matching responses arrive.
C2_ExactlyOneOutcome ==
    component \in LocalComponents =>
        \A s \in Slots :
            /\ Len(outcome[s]) <= 1
            /\ req[s].pc = "done" <=> Len(outcome[s]) = 1
            /\ outcome[s] # <<>> =>
                   outcome[s][1] \in {"returned", "timeout", "conn_error", "publish_error"}
            /\ req[s].sets <= 1

C2_Witness ==
    /\ component = "local"
    /\ outcome["a"] = <<"returned">>
    /\ outcome["b"] = <<"timeout">>

\* C3: without a preferred version the handshake tries 1.0 first and L01 only
\* after 1.0 failed, it stops at the first success, and when both fail connect
\* ends with an error, the channel not connected and the transport not open.
C3_HelloOrder ==
    (component \in LocalComponents /\ ctask.preferred = NoVersion) =>
        LET tried == ctask.tried
            n == Len(tried)
        IN /\ n <= 2
           /\ n >= 1 => tried[1].version = V1
           /\ n = 2 => tried[2].version = L01 /\ tried[1].result = "fail"
           /\ \A i \in 1..n : tried[i].result = "ok" => i = n
           /\ \A i \in 1..n : tried[i].result = "pending" => i = n /\ ctask.pc = "hello"
           /\ cresult = "hello_failed" <=>
                  (ctask.pc = "idle" /\ n = 2 /\ \A i \in 1..n : tried[i].result = "fail")
           /\ cresult = "hello_failed" =>
                  /\ ~is_connected
                  /\ transport = None
                  /\ tstate[ctask.t] \in {"closing", "lost"}

\* C4: after a handshake ack_nonce is the random of the HELLO
\* response if that response advertises L01 and is unset if it advertises 1.0.
C4_AckNonceIffL01 ==
    HandshakeDone =>
        LET response == req[HelloSlot].result
        IN /\ response.version = L01 => ack_nonce = response.random
           /\ response.version = V1 => ack_nonce = None

\* C5: data a transport delivers after the handshake is decoded
\* by the decoder the handshake created, never by the one that existed before.
C5_RxUsesNegotiatedDecoder ==
    lastRx.negotiated => lastRx.used = lastRx.current

\* C6: when an open transport reports connection loss no call is
\* left waiting on a pending future and no subscriber stays registered.
C6_LossEndsPending ==
    [][\A t \in Transports :
          (component \in LocalComponents /\ tstate[t] = "open" /\ tstate'[t] = "lost") =>
              /\ \A s \in Slots : req[s].pc = "waiting" => req'[s].future # "pending"
              /\ subscribers' = <<>>]_vars

(***************************************************************************)
(* Properties of V1Channel and of RoborockLocalClientV1                    *)
(***************************************************************************)
\* C7: a command sent while the local channel is connected and whose local
\* send succeeds goes over the local channel and not over MQTT; a command
\* sent while no local channel is connected goes over MQTT only.
C7_LocalPreferred ==
    (component = "v1" /\ v1cmd.method # "none") =>
        /\ (v1cmd.had_local /\ v1cmd.method \notin CLOUD_REQUIRED) => v1cmd.local_sent = 1
        /\ (v1cmd.local_sent = 1 /\ v1cmd.local_env = "ok") =>
               (v1cmd.mqtt_sent = 0 /\ v1cmd.outcome = "local_response")
        /\ ~v1cmd.had_local => (v1cmd.local_sent = 0 /\ v1cmd.mqtt_sent = 1)

C7_Witness ==
    /\ component = "v1"
    /\ v1cmd.method = GET_STATUS
    /\ v1cmd.had_local
    /\ v1cmd.local_env = "ok"
    /\ v1cmd.local_sent = 1
    /\ v1cmd.mqtt_sent = 0

\* C8: a command whose local send raises is sent exactly once over MQTT, the
\* caller gets the MQTT response, and gets an error only if the MQTT attempt
\* fails as well.
C8_RetryOnceOverMqtt ==
    (component = "v1" /\ v1cmd.local_sent = 1 /\ v1cmd.local_env # "ok") =>
        /\ v1cmd.mqtt_sent = 1
        /\ v1cmd.mqtt_env = "ok" => v1cmd.outcome = "mqtt_response"
        /\ v1cmd.outcome = "error" => v1cmd.mqtt_env = "fail"

C8_Witness ==
    /\ component = "v1"
    /\ v1cmd.local_sent = 1
    /\ v1cmd.local_env = "disconnected"
    /\ v1cmd.mqtt_sent = 1
    /\ v1cmd.outcome = "mqtt_response"
    /\ ~v1.local_connected

\* C9: a local connect whose networking-info RPC fails connects to the
\* cached IP, however old, and raises the RPC failure only when nothing is
\* cached.
C9_StaleCacheFallback ==
    (component = "v1" /\ v1conn.rpc = "fail") =>
        IF v1conn.cached # NoHost
        THEN v1conn.host = v1conn.cached /\ v1conn.raised # "rpc"
        ELSE v1conn.raised = "rpc"

C9_Witness ==
    /\ component = "v1"
    /\ v1conn.rpc = "fail"
    /\ ~v1conn.use_cache
    /\ v1conn.cached \in Hosts
    /\ v1.age > NETWORK_INFO_REFRESH_INTERVAL
    /\ v1conn.host = v1conn.cached
    /\ v1.local_connected

\* C10: a cloud-only command is sent over MQTT without a local attempt, and
\* the local client neither encodes nor writes one.
C10_CloudOnlyNeverLocal ==
    /\ (component = "v1" /\ v1cmd.method \in CLOUD_REQUIRED) =>
           (v1cmd.local_sent = 0 /\ v1cmd.mqtt_sent = 1)
    /\ component = "client" =>
           /\ clEncoded \cap CLOUD_REQUIRED = {}
           /\ clWritten \cap CLOUD_REQUIRED = {}
           /\ \A c \in ClCalls :
                  (clCall[c].pc = "done" /\ clCall[c].method \in CLOUD_REQUIRED) =>
                      clOut[c] = <<"unsupported">>

C10_Witness ==
    /\ component = "client"
    /\ clCall["u"].pc = "done"
    /\ clCall["u"].method = GET_MAP_V1
    /\ clOut["u"] = <<"unsupported">>
    /\ clTransport # None
    /\ GET_STATUS \in clWritten

(***************************************************************************)
(* Properties of RoborockDevice                                            *)
(***************************************************************************)
Seconds(n) == n * 1000000

\* C11: the intervals one connect loop sleeps after its failed attempts start
\* at 10 s, each is 1.5 times the one before (to the microsecond) or 30 min
\* when that would be more, none is smaller than the one before, none is
\* more than 30 min.
C11_BackoffSequence ==
    component \in DeviceComponents =>
        LET sl == device.sleeps
        IN /\ Len(sl) >= 1 => sl[1] = Seconds(10)
           /\ \A i \in 1..Len(sl) : sl[i] <= Seconds(30 * 60)
           /\ \A i \in 1..(Len(sl) - 1) :
                  /\ sl[i + 1] >= sl[i]
                  /\ IF sl[i] >= Seconds(20 * 60)
                     THEN sl[i + 1] = Seconds(30 * 60)
                     ELSE sl[i + 1] - sl[i] - (sl[i] \div 2) \in {0, 1}

C11_Witness ==
    /\ component = "backoff"
    /\ Len(device.sleeps) >= 14
    /\ device.sleeps[2] = Seconds(15)
    /\ device.sleeps[13] < Seconds(30 * 60)
    /\ device.sleeps[14] = Seconds(30 * 60)

\* C12: a connect loop never ends at a RoborockException: it sleeps, and the
\* sleep is followed by another attempt unless the loop is cancelled; any
\* other exception ends the loop, which makes no further attempt.
C12_TransientNeverEnds ==
    /\ [](component \in DeviceComponents =>
              /\ device.connect_task = "done" => device.last \in {"ok", "fatal", "cancelled"}
              /\ device.last = "transient" => device.connect_task = "sleep"
              /\ device.last = "fatal" => device.connect_task = "done")
    /\ (component \in DeviceComponents /\ device.connect_task = "sleep")
           ~> (device.connect_task = "subscribe" \/ device.last \in {"fatal", "cancelled"})

C12_Witness ==
    /\ component = "device"
    /\ Len(device.sleeps) = 2
    /\ device.connect_task = "subscribe"
    /\ device.last = "none"
    /\ ~device.cancel

\* the number of times x occurs in seq
Count(seq, x) == Cardinality({i \in 1..Len(seq) : seq[i] = x})

\* C13: once a connect() has succeeded, through a caller or through the
\* connect loop, ready is latched and every registered ready callback has
\* been invoked exactly once, in registration order; no callback is ever
\* invoked twice.
C13_ReadyCallbacksOnce ==
    component = "device" =>
        /\ device.ever => device.has_connected
        /\ \A cb \in ReadyCallbacks : Count(device.fired, cb) <= 1
        /\ device.ever => device.fired = device.ready_callbacks

\* C14: add_ready_callback on a device on which a connect() has succeeded
\* invokes the callback before it returns; no callback is invoked on a
\* device on which no connect() has succeeded yet.
C14_ReadyCallbackImmediate ==
    component = "device" =>
        /\ (device.last_add.cb # "none" /\ device.last_add.connected) => device.last_add.invoked
        /\ ~device.ever => device.fired = <<>>

\* C15: after close() has returned, and until something is started again,
\* the connect loop is over, self._unsub is released and the channel holds
\* no subscription of the device's message callback.
C15_CloseReleases ==
    (component \in DeviceComponents /\ device.closed /\ device.direct = "idle") =>
        /\ device.connect_task \in {"none", "done"}
        /\ ~device.cancel
        /\ ~device.unsub
        /\ device.subs = 0

\* C16: start_connect() never raises an exception to its caller, whatever
\* the first connect attempt does.
C16_StartConnectNeverRaises ==
    component \in DeviceComponents => device.start # "raised"

Q10HandledOnce ==
    /\ q10.fed = q10.nhandled + Len(q10.queue)
    /\ \A i \in DOMAIN q10.queue : q10.queue[i].id = q10.nhandled + i
    /\ q10.last.id = q10.nhandled
    /\ q10.nhandled > 0 =>
           q10.last.class = CASE q10.last.msg.protocol = RPC_RESPONSE -> "rpc"
                              [] q10.last.msg.protocol = MAP_RESPONSE -> "map"
                              [] OTHER -> "other"

TopLevel(decoded) ==
    {i \in DOMAIN decoded :
        ~(decoded[i].dp = DP_COMMON /\ decoded[i].value.kind = "dict")}

\* the entries of the 101 envelopes of the decoded map, as <<i, j>>: entry j
\* of the envelope at position i
Nested(decoded) ==
    {p \in (DOMAIN decoded) \X (1..MaxInner + 1) :
        /\ decoded[p[1]].dp = DP_COMMON
        /\ decoded[p[1]].value.kind = "dict"
        /\ p[2] \in DOMAIN decoded[p[1]].value.items}

NestedKey(decoded, p) == IntOf(decoded[p[1]].value.items[p[2]].k)
NestedValue(decoded, p) == Scalar(decoded[p[1]].value.items[p[2]].v)

\* C19: a key present at top level and in the 101 envelope holds a nested
\* value in the flattened map, whatever the order of the keys.
C19_NestedWins ==
    (component = "flatten" /\ flat.done) =>
        \A i \in TopLevel(flat.decoded) :
            (\E p \in Nested(flat.decoded) : NestedKey(flat.decoded, p) = flat.decoded[i].dp)
                => \E p \in Nested(flat.decoded) :
                      /\ NestedKey(flat.decoded, p) = flat.decoded[i].dp
                      /\ flat.out[flat.decoded[i].dp] = NestedValue(flat.decoded, p)

\* what the flattened map may hold under dp: a top-level value, or a value
\* of the envelope stored under a key that parses to dp
Sources(decoded, dp) ==
    {decoded[i].value : i \in {t \in TopLevel(decoded) : decoded[t].dp = dp}}
    \cup
    {NestedValue(decoded, p) : p \in {n \in Nested(decoded) : NestedKey(decoded, n) = dp}}

\* C20: the flattened map holds exactly the top-level entries other than an
\* object-valued 101 and the envelope entries whose key parses as an integer,
\* under that integer; entries of the envelope with another key are dropped
\* and a 101 that is not an object is kept.
C20_FlattenExact ==
    (component = "flatten" /\ flat.done) =>
        \A dp \in DpKeys :
            IF Sources(flat.decoded, dp) = {}
            THEN flat.out[dp] = Absent
            ELSE flat.out[dp] \in Sources(flat.decoded, dp)

\* an envelope with an integer key and another key, next to a top-level DP
C20_Witness ==
    /\ component = "flatten"
    /\ flat.done
    /\ \E p \in Nested(flat.decoded) : NestedKey(flat.decoded, p) = NotInt
    /\ \E p \in Nested(flat.decoded) :
          /\ NestedKey(flat.decoded, p) = 25
          /\ flat.out[25] = NestedValue(flat.decoded, p)
    /\ flat.out[122] # Absent
    /\ flat.out[DP_COMMON] = Absent

(***************************************************************************)
(* Properties of the B01 Q10 send helpers                                  *)
(***************************************************************************)
\* C21: a Q10 outbound command (send_b01_dp_command, send_command) only
\* publishes: it subscribes no response waiter, it returns normally whatever
\* the publish does, and a publish that times out is counted by the health
\* manager of the channel.
C21_FireAndForget ==
    [][(/\ component = "q10send"
        /\ q10s.fn \in {"send_b01_dp_command", "send_command"}
        /\ q10s.pc = "publish"
        /\ q10s'.pc = "done")
        => /\ q10s'.waiters = 0
           /\ q10s'.outcome = "returned"
           /\ q10s'.published = "TimeoutError"
                 => q10s'.health.timeout = q10s.health.timeout + 1]_vars

\* a response that decodes and, when DPs are expected, holds one of them
Wanted(expected, response) ==
    /\ response.decodes
    /\ expected.given => response.dps \cap expected.dps # {}

\* the first wanted response in arrival order; 0 when there is none
FirstWanted(expected, arrived) ==
    LET wanted == {i \in DOMAIN arrived : Wanted(expected, arrived[i])}
    IN IF wanted = {} THEN 0 ELSE CHOOSE i \in wanted : \A j \in wanted : i <= j

\* C28: with expected_dps absent or not empty, send_decoded_command returns
\* the first response, in arrival order, that decodes and holds one of the
\* expected DPs if there are any; when the timeout expires, which happens
\* only when no such response has arrived, it raises RoborockException.
C28_FirstExpectedResponse ==
    (/\ component = "q10send"
     /\ q10s.fn = "send_decoded_command"
     /\ q10s.pc = "done"
     /\ (~q10s.expected.given \/ q10s.expected.dps # {})) =>
        LET first == FirstWanted(q10s.expected, q10s.arrived)
        IN /\ q10s.outcome = "returned" =>
                 /\ first > 0
                 /\ q10s.result = [at |-> first, dps |-> q10s.arrived[first].dps]
           /\ q10s.future = "cancelled" => (first = 0 /\ q10s.outcome = "RoborockException")
           /\ (q10s.published = "ok" /\ first = 0) => q10s.outcome = "RoborockException"
           /\ (q10s.published = "ok" /\ first > 0) => q10s.outcome = "returned"

\* a response that does not decode and one without an expected DP were
\* skipped, and the third response was returned after a wait
C28_Witness ==
    /\ component = "q10send"
    /\ q10s.fn = "send_decoded_command"
    /\ q10s.pc = "done"
    /\ q10s.outcome = "returned"
    /\ q10s.waited
    /\ q10s.expected = [given |-> TRUE, dps |-> {121}]
    /\ q10s.result.at = 3
    /\ ~q10s.arrived[1].decodes
    /\ q10s.arrived[2] = [decodes |-> TRUE, dps |-> {122}]
    /\ 121 \in q10s.arrived[3].dps

(***************************************************************************)
(* Properties of the subscribers of a LocalChannel and of a B01 Q10 router *)
(***************************************************************************)
\* the message the router handles in this step reaches the property-update
\* callbacks
Q10Delivers ==
    LET msg == Head(q10.queue).msg
    IN /\ msg.protocol = RPC_RESPONSE
       /\ msg.decodes
       /\ ~IsEmptyFlat(flatten_q10_dps(msg.decoded))

C23_CallbackExceptionContained ==
    [][/\ (component = "q10" /\ q10'.nhandled # q10.nhandled /\ Q10Delivers) =>
            /\ q10'.last.got = q10.callbacks
            /\ \A cb \in Range(q10.callbacks) :
                   q10'.seen[cb] = Append(q10.seen[cb], Head(q10.queue).id)
            /\ q10'.task = "running"
            /\ q10'.queue = Tail(q10.queue)
       /\ (component = "subscribe" /\ lsub'.nrx # lsub.nrx) =>
            \A cb \in Range(lsub.callbacks) :
                lsub'.seen[cb] = lsub.seen[cb] \o ChunkIds(lsub.nrx, lsub'.nrx - lsub.nrx)]_vars

\* c1, called first, raised on the second message; c1 and c2 got both
\* messages
C23_Witness ==
    /\ component = "q10"
    /\ q10.nhandled = 2
    /\ q10.last.registered = <<"c1", "c2">>
    /\ q10.last.raised = {"c1"}
    /\ q10.seen["c1"] = <<1, 2>>
    /\ q10.seen["c2"] = <<1, 2>>

Increasing(seq) == \A i, j \in DOMAIN seq : i < j => seq[i] < seq[j]

\* C24: every subscriber gets the messages in the order in which they
\* arrived at the channel, and every property-update callback of the router
\* in the order in which they were fed (messages are numbered as they arrive).
C24_ArrivalOrder ==
    /\ component = "q10" => \A cb \in Q10Callbacks : Increasing(q10.seen[cb])
    /\ component = "subscribe" => \A cb \in LcCallbacks : Increasing(lsub.seen[cb])

\* c2, the only callback, got the two messages fed to the router
C24_Witness ==
    /\ component = "q10"
    /\ q10.fed = 2
    /\ q10.queue = <<>>
    /\ q10.callbacks = <<"c2">>
    /\ q10.handles = {"c2"}
    /\ q10.removes = 0
    /\ q10.seen["c2"] = <<1, 2>>

(***************************************************************************)
(* More properties of LocalChannel                                         *)
(***************************************************************************)
\* C25: a handshake of a channel that has a preferred protocol version
\* attempts that version first, and the other version only after the
\* preferred one has failed.
C25_PreferredVersionFirst ==
    (component \in LocalComponents /\ ctask.tried # <<>> /\ ctask.preferred # NoVersion) =>
        /\ ctask.tried[1].version = ctask.preferred
        /\ Len(ctask.tried) <= 2
        /\ Len(ctask.tried) = 2 =>
              /\ ctask.tried[1].result = "fail"
              /\ ctask.tried[2].version # ctask.preferred

\* a reconnect with L01 preferred: L01 was attempted and failed, then V1
\* succeeded
C25_Witness ==
    /\ component \in LocalComponents
    /\ ctask.preferred = L01
    /\ ctask.tried = <<[version |-> L01, result |-> "fail"], [version |-> V1, result |-> "ok"]>>

(***************************************************************************)
(* Properties of a second subscription                                     *)
(***************************************************************************)
\* C26: while a RoborockDevice holds a subscription (self._unsub is set) no
\* connect() of a caller gets to subscribe again, and the ValueError such a
\* connect() raises changes neither the subscription nor the connect task;
\* a subscribe on a V1Channel that is subscribed raises ValueError and leaves
\* both legs as they are.
C26_AlreadyConnected ==
    [][/\ (component = "device" /\ device.unsub) =>
            ~(device.direct = "idle" /\ device'.direct = "subscribe")
       /\ (component = "device" /\ ~device.direct_raised /\ device'.direct_raised) =>
            /\ device.unsub /\ device'.unsub
            /\ device'.subs = device.subs
            /\ device'.connect_task = device.connect_task
            /\ device'.has_connected = device.has_connected
            /\ device'.fired = device.fired
       /\ (component = "v1sub" /\ ~v1bg.raised /\ v1bg'.raised) =>
            /\ v1.mqtt_connected
            /\ v1' = v1
            /\ v1bg'.unsubs = v1bg.unsubs
            /\ v1bg'.closed = v1bg.closed]_vars

\* a connect() on a connected device has raised and the subscription is
\* still the only one
C26_Witness ==
    /\ component = "device"
    /\ device.direct_raised
    /\ device.unsub
    /\ device.subs = 1
    /\ device.direct = "idle"

\* C27: V1Channel.subscribe ends with the MQTT leg connected whether or not
\* the local connection was made, and the handle it returns unsubscribes the
\* MQTT leg once and the local leg once if it is established, leaving no leg
\* connected.
C27_SubscribeMqttOnly ==
    [][/\ (component = "v1sub" /\ ~v1.mqtt_connected /\ v1' # v1) =>
            /\ v1'.mqtt_connected
            /\ v1'.local_connected = (v1conn'.raised = "none")
       /\ (component = "v1sub" /\ ~v1bg.closed /\ v1bg'.closed) =>
            /\ v1bg'.unsubs.mqtt = v1bg.unsubs.mqtt + 1
            /\ v1bg'.unsubs.local = v1bg.unsubs.local + (IF v1.local_connected THEN 1 ELSE 0)
            /\ ~v1'.mqtt_connected
            /\ ~v1'.local_connected
       /\ (component = "v1sub" /\ v1bg.closed) => v1bg'.unsubs = v1bg.unsubs]_vars

\* a subscribe whose local connection failed, released: the MQTT leg was
\* unsubscribed once and no local leg
C27_Witness ==
    /\ component = "v1sub"
    /\ v1bg.closed
    /\ v1bg.tries = 0
    /\ v1conn.raised = "connect"
    /\ v1bg.unsubs = [mqtt |-> 1, local |-> 0]

(***************************************************************************)
(* Properties of publish on a channel that is not connected                *)
(***************************************************************************)
\* C29: a send on a LocalChannel that has no transport or is not connected
\* (never connected, closed, or after a connection loss) raises
\* RoborockConnectionException, writes nothing and leaves no waiter behind.
C29_PublishNotConnected ==
    [][\A s \in Callers :
          (/\ component \in LocalComponents
           /\ req[s].pc = "idle"
           /\ req'[s] # req[s]
           /\ (transport = None \/ ~is_connected)) =>
              /\ outcome'[s] = <<"conn_error">>
              /\ req'[s] = DoneReq
              /\ lastTx' = lastTx
              /\ tstate' = tstate
              /\ subscribers' = subscribers]_vars

\* a caller was refused on a channel whose connection had been lost or closed
C29_Witness ==
    /\ component \in LocalComponents
    /\ \E s \in Callers : outcome[s] = <<"conn_error">>
    /\ \E t \in Transports : tstate[t] \in {"lost", "closing"}
    /\ transport = None
    /\ ~is_connected

(***************************************************************************)
(* Properties of the keepalive of RoborockLocalClientV1                    *)
(***************************************************************************)
\* C30: a PING that receives no reply marks the client unhealthy: when the
\* wait for a PING_RESPONSE ends without one, the client no longer reports
\* itself connected.
C30_MissedPingMarksUnhealthy ==
    [][(component = "keepalive" /\ ka'.missed > ka.missed) => ~ka_is_connected(ka')]_vars

(***************************************************************************)
(* Properties of a LocalChannel that reconnects                            *)
(***************************************************************************)
\* C36: the connection_lost callback of a transport the channel has closed
\* and replaced leaves the new transport held and the channel connected, and
\* a connected channel always holds a transport.
C36_StaleLossIgnored ==
    [][/\ \A t \in Transports :
            (/\ component \in LocalComponents
             /\ tstate[t] = "closing"
             /\ tstate'[t] = "lost"
             /\ transport # None
             /\ transport # t) =>
                /\ transport' = transport
                /\ is_connected' = is_connected
       /\ (component \in LocalComponents /\ is_connected') => transport' # None]_vars

(***************************************************************************)
(* Properties of the LocalChannel handshake                                *)
(***************************************************************************)
\* C32: every frame written to a transport other than a HELLO request is
\* written after the handshake on that transport has completed.
C32_NothingBeforeHandshake ==
    (component \in LocalComponents /\ lastTx.protocol \notin {"none", HELLO_REQUEST})
        => lastTx.negotiated

\* C33: after a handshake the recorded protocol version is the version the
\* HELLO response advertises, and the codec was built with an ack_nonce
\* exactly when that version is L01.
C33_VersionMatchesResponse ==
    HandshakeDone =>
        LET response == req[HelloSlot].result
        IN /\ local_protocol_version = response.version
           /\ (local_protocol_version = L01) <=> (encoder.ack_nonce # None)

(***************************************************************************)
(* Properties of HomeTrait.discover_home                                   *)
(***************************************************************************)
\* the cache holds both home_map_info and home_map_content
HomePopulated == home.cache_info # {} /\ home.cache_content # {}

\* the step in which discover_home is called
HomeCalled == component = "home" /\ home.pc = "idle" /\ home'.pc # "idle"

\* discover_home raised RoborockDeviceBusy and changed nothing
HomeRefused ==
    /\ home'.pc = "done"
    /\ home'.result = "busy"
    /\ home'.sent = <<>>
    /\ home'.cache_info = home.cache_info
    /\ home'.cache_content = home.cache_content
    /\ home'.info = home.info
    /\ home'.content = home.content

C34_CurrentMapLast ==
    component = "home" =>
        /\ \A i \in DOMAIN home.loads :
                home.loads[i] = home.current_map => i = Len(home.map_info)
        /\ Len(home.map_info) = 1 =>
                (home.loads = <<>> /\ "load_multi_map" \notin Range(home.sent))
        /\ (home.result = "ok" /\ Len(home.map_info) > 1) =>
                /\ Len(home.loads) = Len(home.map_info)
                /\ Range(home.loads) = Range(home.map_info)
                /\ home.loads[Len(home.loads)] = home.current_map

\* a discovery over three maps completed although the device lists the
\* current map first
C34_Witness ==
    /\ component = "home"
    /\ home.result = "ok"
    /\ Len(home.map_info) = 3
    /\ home.map_info[1] = home.current_map
    /\ home.loads[3] = home.current_map

(***************************************************************************)
(* Properties of RoborockDevice._on_message                                *)
(***************************************************************************)
\* C40: _on_message never raises, and the status trait changes or notifies
\* only for a well-formed message that holds a data point other than the
\* "102" key and the unknown keys.
C40_OnMessageNeverRaises ==
    [][(component = "onmessage" /\ om'.n > om.n) =>
          /\ om'.raised = "none"
          /\ (om'.error_code # om.error_code \/ om'.state # om.state
                    \/ om'.battery # om.battery \/ om'.charge_status # om.charge_status
                    \/ om'.notified # om.notified) =>
                /\ om'.last.wellformed
                /\ om'.last.known]_vars

(***************************************************************************)
(* Properties of the keepalive across disconnects                          *)
(***************************************************************************)
\* the keep_alive_func chains alive: coroutines running and calls scheduled
KaChains ==
    Cardinality({i \in KaTasks : ka.task[i] # "idle"})
        + ka.orphans + (IF ka.latest THEN 1 ELSE 0)

\* C37: on a client that was disconnected and is not reconnecting no
\* keepalive call is scheduled, and at no time is there more than one
\* keepalive chain.
C37_KeepaliveStopsAtDisconnect ==
    component = "keepalive" =>
        /\ (ka.transport = "closed" /\ ka.conn = "idle") => (~ka.latest /\ ka.orphans = 0)
        /\ KaChains <= 1

(***************************************************************************)
(* Properties of the consumer task of the B01 Q10 router                   *)
(***************************************************************************)
\* C38: a message that is queued always has a consumer task that has not
\* ended, so that it is handled without another feed.
C38_QueuedHasConsumer ==
    (component = "q10" /\ q10.queue # <<>>) => q10.task \in {"running", "cancelling"}

\* C39: each request helper that installs a temporary response subscriber
\* (LocalChannel.send_message, the Q7 and the Q10 send_decoded_command)
\* removes exactly that subscriber on every exit path - response, timeout,
\* publish error or cancellation: the step that ends a call leaves the
\* subscriber list as it was without the call's subscriber, and a call that
\* is not in progress has no subscriber registered.
C39_SubscriberRemovedOnEveryExit ==
    [][/\ \A s \in Callers :
            /\ (req[s].pc # "done" /\ req'[s].pc = "done")
                    => subscribers' = Remove(subscribers, s)
            /\ req'[s].pc # "waiting" => s \notin Range(subscribers')
       /\ \A c \in Q7Calls :
            /\ (q7req[c].pc # "done" /\ q7req'[c].pc = "done")
                    => q7subs' = Remove(q7subs, c)
            /\ q7req'[c].pc # "waiting" => c \notin Range(q7subs')
       /\ q10s'.pc \in {"idle", "done"} => ~q10s'.subscribed]_vars

\* a send_message call that was cancelled while it awaited its response, on a
\* channel with no subscriber left
C39_Witness ==
    /\ component = "cancel"
    /\ req["a"].pc = "done"
    /\ outcome["a"] # <<>>
    /\ outcome["a"][Len(outcome["a"])] = "cancelled"
    /\ "a" \notin Range(subscribers)
    /\ negotiated # {}

\* C35: under any interleaving of connect() calls on one LocalChannel at
\* most one TCP connection is open at a time: connect() on a connected
\* channel opens nothing and two overlapping connect() calls do not both
\* open a transport.
C35_AtMostOneConnection ==
    component = "connects" => Cardinality(cc.open) <= 1
====
